---- MODULE Spec2Model ----
(***************************************************************************)
(* A model of yarm: the profile resolution engine (glob matcher, name      *)
(* lookup, context reordering), the repository scanner and the state       *)
(* store.  Strings are sequences of one-character strings, so that the     *)
(* string operations of the source (split, starts_with, find, format!) are *)
(* computed and not assumed.                                               *)
(***************************************************************************)
EXTENDS Integers, Sequences, FiniteSets, TLC

VARIABLES
    \* glob_match(pattern, text): the call and its result
    gPattern, gText, gPc, gResult,
    \* find_profile_by_name(profiles, name): the call and its result
    fProfiles, fName, fPc, fResult,
    \* the state store: the file ~/.local/share/yarm/state.bin, whether
    \* dirs::data_dir() is known, and the tool invocations that load or save
    \* (sFile0 is the file at the start, sLast the State of the latest write)
    sFile, sFile0, sLast, sDataDir, sOp, sPc, sBytes, sResult,
    \* the file system the scanner walks: directories, regular files and the
    \* directories that cannot be read (paths are sequences of names)
    fsDirs, fsFiles, fsUnreadable,
    \* the configuration: repositories.pools, .exclude and .max_depth
    cfgPools, cfgExclude, cfgMaxDepth,
    \* scan::run: position, index of the pool at hand, repos, pool_count, result
    rPc, rPool, repos, pool_count, rResult,
    \* scan_directory: root, stack and its own repos, and how often each
    \* directory has been pushed on the stack and popped from it
    root, stack, found, pushes, pops,
    \* profile reordering: the catalog, the ProfileContext, the includeIf
    \* rules, profiles.default, the function called and its result
    oProfiles, oContext, oRules, oDefault, oOp, oPc, oResult,
    \* the clone, init and apply commands: the command and whether --profile
    \* was given, position, result, the outcome of profile resolution and the
    \* profile selected, the repositories to apply to, the one at hand, the
    \* key at hand in apply_profile, the configuration that repository had
    \* when apply_profile was entered, and the git commands run so far
    cCmd, cNamed, cPc, cResult, cResolution, cSelected, cTargets, cIdx, cKey, cBefore, cLog,
    \* the repositories the commands work on: the directories that exist,
    \* those that hold .git, their local git configuration, and all three as
    \* they were when the command started
    tDirs, tGit, tConfig, tDirs0, tGit0, tConfig0,
    \* discover_profiles: the lines `git config --list --show-origin` printed,
    \* the files find_gitconfig_files listed, the effective user.email,
    \* profiles.default, position and index, the map and the list of
    \* parse_git_config_output, the two populations, the sources seen and the
    \* list returned
    dOutput, dListed, dEmail, dDefault, dPc, dLine, entries_by_file, parsed,
    git_profiles, additional_profiles, seen_sources, dResult,
    \* parse_include_if_from_file: the lines of the file and whether it can be
    \* read, position and index, current_condition and the rules pushed
    iContent, iReadable, iPc, iLine, current_condition, iRules,
    \* IncludeIfRule::matches: the rule, the context it is asked about, the
    \* position, the answer and the number of calls made so far
    mRule, mContext, mPc, mResult, mCalls,
    \* clone::run from clone_repo on: the profile selected, what the git clone
    \* child has yet to write to stderr and its exit status, the child, the
    \* pipe, the reader thread with its all_output, the channel and the sends
    \* made, the main thread with its stderr_output, the configuration of the
    \* target, the key at hand in apply_profile and the result
    kSelected, kToWrite, kStatus, kChild, kPipe, kReader, all_output, kChan, kSends,
    kMain, stderr_output, kConfig, kKey, kResult

globVars == <<gPattern, gText, gPc, gResult>>
findVars == <<fProfiles, fName, fPc, fResult>>
storeVars == <<sFile, sFile0, sLast, sDataDir, sOp, sPc, sBytes, sResult>>
fsVars == <<fsDirs, fsFiles, fsUnreadable>>
cfgVars == <<cfgPools, cfgExclude, cfgMaxDepth>>
runVars == <<rPc, rPool, repos, pool_count, rResult>>
dirVars == <<root, stack, found, pushes, pops>>
scanVars == <<fsVars, cfgVars, runVars, dirVars>>
reorderVars == <<oProfiles, oContext, oRules, oDefault, oOp, oPc, oResult>>
flowVars == <<cCmd, cNamed, cPc, cResult, cResolution, cSelected, cTargets, cIdx, cKey,
              cBefore, cLog>>
targetVars == <<tDirs, tGit, tConfig, tDirs0, tGit0, tConfig0>>
cmdVars == <<flowVars, targetVars>>

discoverVars == <<dOutput, dListed, dEmail, dDefault, dPc, dLine, entries_by_file, parsed,
                  git_profiles, additional_profiles, seen_sources, dResult>>

includeVars == <<iContent, iReadable, iPc, iLine, current_condition, iRules>>

matchVars == <<mRule, mContext, mPc, mResult, mCalls>>

cloneVars == <<kSelected, kToWrite, kStatus, kChild, kPipe, kReader, all_output, kChan, kSends, kMain, stderr_output, kConfig, kKey, kResult>>

vars == <<globVars, findVars, storeVars, scanVars, reorderVars, cmdVars, discoverVars, includeVars, matchVars, cloneVars>>

None == "None"

\* Option<T>: None is the empty sequence, Some(x) the sequence of x
NoneOpt == <<>>
Some(x) == <<x>>

\* Result<T>
Ok(v) == [ok |-> TRUE, val |-> v]
Err(msg) == [ok |-> FALSE, err |-> msg]

-----------------------------------------------------------------------------
(* Strings (&str) as sequences of characters *)

\* All sequences over S of length 0..n
RECURSIVE SeqsUpTo(_, _)
SeqsUpTo(S, n) ==
    IF n = 0 THEN {<<>>}
    ELSE LET shorter == SeqsUpTo(S, n - 1)
         IN  shorter \cup {Append(s, c) : s \in {t \in shorter : Len(t) = n - 1}, c \in S}

\* str::starts_with
StartsWith(text, part) ==
    /\ Len(part) <= Len(text)
    /\ SubSeq(text, 1, Len(part)) = part

\* str::ends_with
EndsWith(text, part) ==
    /\ Len(part) <= Len(text)
    /\ SubSeq(text, Len(text) - Len(part) + 1, Len(text)) = part

\* part occurs in text at byte offset i (0-based)
OccursAt(text, part, i) ==
    /\ i >= 0
    /\ i + Len(part) <= Len(text)
    /\ SubSeq(text, i + 1, i + Len(part)) = part

\* str::find: the offset of the first occurrence, or -1 for Option::None
StrFind(text, part) ==
    LET hits == {i \in 0..Len(text) : OccursAt(text, part, i)}
    IN  IF hits = {} THEN -1
        ELSE CHOOSE i \in hits : \A j \in hits : i <= j

\* str::contains(char)
ContainsChar(s, c) == \E i \in 1..Len(s) : s[i] = c

\* str::split(char): always at least one part
RECURSIVE Split(_, _)
Split(s, sep) ==
    IF s = <<>> THEN << <<>> >>
    ELSE LET rest == Split(Tail(s), sep)
         IN  IF Head(s) = sep
             THEN << <<>> >> \o rest
             ELSE << <<Head(s)>> \o Head(rest) >> \o Tail(rest)

-----------------------------------------------------------------------------
(* The state of each part when a specification does not exercise it *)

GlobIdle ==
    /\ gPattern = <<>>
    /\ gText = <<>>
    /\ gPc = "idle"
    /\ gResult = FALSE

FindIdle ==
    /\ fProfiles = <<>>
    /\ fName = <<>>
    /\ fPc = "idle"
    /\ fResult = None

StoreIdle ==
    /\ sFile = [exists |-> FALSE]
    /\ sFile0 = [exists |-> FALSE]
    /\ sLast = <<>>
    /\ sDataDir = FALSE
    /\ sOp = <<>>
    /\ sPc = <<>>
    /\ sBytes = <<>>
    /\ sResult = <<>>

ScanIdle ==
    /\ fsDirs = {} /\ fsFiles = {} /\ fsUnreadable = {}
    /\ cfgPools = <<>> /\ cfgExclude = {} /\ cfgMaxDepth = NoneOpt
    /\ rPc = "idle" /\ rPool = 0 /\ repos = <<>> /\ pool_count = 0 /\ rResult = None
    /\ root = <<>> /\ stack = <<>> /\ found = <<>> /\ pushes = <<>> /\ pops = <<>>

ReorderIdle ==
    /\ oProfiles = <<>>
    /\ oContext = [target_path |-> NoneOpt, clone_url |-> NoneOpt]
    /\ oRules = <<>>
    /\ oDefault = NoneOpt
    /\ oOp = None
    /\ oPc = "idle"
    /\ oResult = <<>>

CmdIdle ==
    /\ cCmd = None /\ cNamed = FALSE /\ cPc = "idle" /\ cResult = None
    /\ cResolution = None /\ cSelected = NoneOpt
    /\ cTargets = <<>> /\ cIdx = 0 /\ cKey = 0 /\ cBefore = <<>> /\ cLog = <<>>
    /\ tDirs = {} /\ tGit = {} /\ tConfig = <<>>
    /\ tDirs0 = {} /\ tGit0 = {} /\ tConfig0 = <<>>

DiscoverIdle ==
    /\ dOutput = <<>>
    /\ dListed = <<>>
    /\ dEmail = NoneOpt
    /\ dDefault = NoneOpt
    /\ dPc = "idle"
    /\ dLine = 0
    /\ entries_by_file = {}
    /\ parsed = <<>>
    /\ git_profiles = <<>>
    /\ additional_profiles = <<>>
    /\ seen_sources = {}
    /\ dResult = <<>>

IncludeIdle ==
    /\ iContent = <<>>
    /\ iReadable = FALSE
    /\ iPc = "idle"
    /\ iLine = 0
    /\ current_condition = NoneOpt
    /\ iRules = <<>>

MatchIdle ==
    /\ mRule = None
    /\ mContext = None
    /\ mPc = "idle"
    /\ mResult = FALSE
    /\ mCalls = 0

CloneIdle ==
    /\ kSelected = None
    /\ kToWrite = <<>>
    /\ kStatus = FALSE
    /\ kChild = "none"
    /\ kPipe = <<>>
    /\ kReader = "none"
    /\ all_output = <<>>
    /\ kChan = <<>>
    /\ kSends = 0
    /\ kMain = "idle"
    /\ stderr_output = <<>>
    /\ kConfig = <<>>
    /\ kKey = 0
    /\ kResult = None

\* What a specification of one part says of the other parts
GlobOthersIdle == FindIdle /\ StoreIdle /\ ScanIdle /\ ReorderIdle /\ CmdIdle /\ DiscoverIdle /\ IncludeIdle /\ MatchIdle /\ CloneIdle
GlobFrame == UNCHANGED <<findVars, storeVars, scanVars, reorderVars, cmdVars, discoverVars, includeVars, matchVars, cloneVars>>
FindOthersIdle == GlobIdle /\ StoreIdle /\ ScanIdle /\ ReorderIdle /\ CmdIdle /\ DiscoverIdle /\ IncludeIdle /\ MatchIdle /\ CloneIdle
FindFrame == UNCHANGED <<globVars, storeVars, scanVars, reorderVars, cmdVars, discoverVars, includeVars, matchVars, cloneVars>>
StoreOthersIdle == GlobIdle /\ FindIdle /\ ScanIdle /\ ReorderIdle /\ CmdIdle /\ DiscoverIdle /\ IncludeIdle /\ MatchIdle /\ CloneIdle
StoreFrame == UNCHANGED <<globVars, findVars, scanVars, reorderVars, cmdVars, discoverVars, includeVars, matchVars, cloneVars>>
ScanOthersIdle == GlobIdle /\ FindIdle /\ ReorderIdle /\ CmdIdle /\ DiscoverIdle /\ IncludeIdle /\ MatchIdle /\ CloneIdle
ScanFrame == UNCHANGED <<globVars, findVars, reorderVars, cmdVars, discoverVars, includeVars, matchVars, cloneVars>>
ReorderOthersIdle == GlobIdle /\ FindIdle /\ StoreIdle /\ ScanIdle /\ CmdIdle /\ DiscoverIdle /\ IncludeIdle /\ MatchIdle /\ CloneIdle
ReorderFrame == UNCHANGED <<globVars, findVars, storeVars, scanVars, cmdVars, discoverVars, includeVars, matchVars, cloneVars>>
CmdOthersIdle == GlobIdle /\ FindIdle /\ ScanIdle /\ ReorderIdle /\ DiscoverIdle /\ IncludeIdle /\ MatchIdle /\ CloneIdle
CmdFrame == UNCHANGED <<globVars, findVars, scanVars, reorderVars, discoverVars, includeVars, matchVars, cloneVars>>
DiscoverOthersIdle == GlobIdle /\ FindIdle /\ StoreIdle /\ ScanIdle /\ ReorderIdle /\ CmdIdle /\ IncludeIdle /\ MatchIdle /\ CloneIdle
DiscoverFrame == UNCHANGED <<globVars, findVars, storeVars, scanVars, reorderVars, cmdVars, includeVars, matchVars, cloneVars>>
IncludeOthersIdle == GlobIdle /\ FindIdle /\ StoreIdle /\ ScanIdle /\ ReorderIdle /\ CmdIdle /\ DiscoverIdle /\ MatchIdle /\ CloneIdle
IncludeFrame == UNCHANGED <<globVars, findVars, storeVars, scanVars, reorderVars, cmdVars, discoverVars, matchVars, cloneVars>>
MatchOthersIdle == GlobIdle /\ FindIdle /\ StoreIdle /\ ScanIdle /\ ReorderIdle /\ CmdIdle /\ DiscoverIdle /\ IncludeIdle /\ CloneIdle
MatchFrame == UNCHANGED <<globVars, findVars, storeVars, scanVars, reorderVars, cmdVars, discoverVars, includeVars, cloneVars>>
CloneOthersIdle == GlobIdle /\ FindIdle /\ StoreIdle /\ ScanIdle /\ ReorderIdle /\ CmdIdle /\ DiscoverIdle /\ IncludeIdle /\ MatchIdle
CloneFrame == UNCHANGED <<globVars, findVars, storeVars, scanVars, reorderVars, cmdVars, discoverVars, includeVars, matchVars>>

-----------------------------------------------------------------------------
(* Glob matcher: profile.rs glob_match *)

\* The for loop of glob_match over pattern_parts, from part i (1-based) on,
\* with the running offset pos
RECURSIVE GlobLoop(_, _, _, _)
GlobLoop(parts, text, i, pos) ==
    IF i > Len(parts) THEN TRUE
    ELSE LET part == parts[i]
         IN  IF part = <<>> THEN GlobLoop(parts, text, i + 1, pos)
             ELSE IF i = 1
                  THEN IF ~StartsWith(text, part) THEN FALSE
                       ELSE GlobLoop(parts, text, i + 1, Len(part))
             ELSE IF i = Len(parts)
                  THEN IF ~EndsWith(text, part) THEN FALSE
                       ELSE GlobLoop(parts, text, i + 1, pos)
             ELSE LET offset == StrFind(SubSeq(text, pos + 1, Len(text)), part)
                  IN  IF offset = -1 THEN FALSE
                      ELSE GlobLoop(parts, text, i + 1, pos + offset + Len(part))

glob_match(pattern, text) ==
    LET pattern_parts == Split(pattern, "*")
    IN  IF Len(pattern_parts) = 1 THEN pattern = text
        ELSE GlobLoop(pattern_parts, text, 1, 0)

\* Bounds of the glob specification
MaxPatLen == 4
MaxTextLen == 3

GlobPatChars == {"a", "b", "*"}
GlobTextChars == {"a", "b"}

InitGlob ==
    /\ gPattern \in SeqsUpTo(GlobPatChars, MaxPatLen)
    /\ gText \in SeqsUpTo(GlobTextChars, MaxTextLen)
    /\ gPc = "call"
    /\ gResult = FALSE
    /\ GlobOthersIdle

\* One call of glob_match on the chosen inputs
GlobCall ==
    /\ gPc = "call"
    /\ gResult' = glob_match(gPattern, gText)
    /\ gPc' = "done"
    /\ UNCHANGED <<gPattern, gText>>
    /\ GlobFrame

NextGlob == GlobCall

SpecGlob == InitGlob /\ [][NextGlob]_vars

-----------------------------------------------------------------------------
(* C2 *)

\* The indices of the non-empty segments of a split pattern
NonEmptySegs(segs) == {i \in 1..Len(segs) : segs[i] # <<>>}

\* The non-empty segments can be placed in text left to right without
\* overlapping: the first segment (when non-empty) at offset 0, the last one
\* (when non-empty) ending at the end of the text, every one at or after the
\* end of the non-empty segment before it.
Placeable(pattern, text) ==
    LET segs == Split(pattern, "*")
        I == NonEmptySegs(segs)
    IN  \E start \in [I -> 0..Len(text)] :
            /\ \A i \in I : OccursAt(text, segs[i], start[i])
            /\ (1 \in I => start[1] = 0)
            /\ (Len(segs) \in I => start[Len(segs)] + Len(segs[Len(segs)]) = Len(text))
            /\ \A i, j \in I : i < j => start[i] + Len(segs[i]) <= start[j]

\* C2: for every pattern holding a '*' and every text, glob_match is true
\* only if the non-empty segments of the pattern can be placed in the text
\* left to right without overlapping (first one a prefix, last one a suffix,
\* each one at or after the end of the one before it).
C2_GlobSegmentsDoNotOverlap ==
    (gPc = "done" /\ ContainsChar(gPattern, "*") /\ gResult)
        => Placeable(gPattern, gText)

-----------------------------------------------------------------------------
(* Paths (PathBuf) *)

\* Path::components: whether the path has a root, and its normal components.
\* Repeated separators and a trailing separator are ignored, and a "." is
\* dropped unless it begins a relative path.
PathComponents(s) ==
    LET parts == Split(s, "/")
        has_root == StartsWith(s, <<"/">>)
        keep(i) == /\ parts[i] # <<>>
                   /\ (parts[i] = <<".">> => (i = 1 /\ ~has_root))
        RECURSIVE Pick(_)
        Pick(i) == IF i > Len(parts) THEN <<>>
                   ELSE (IF keep(i) THEN <<parts[i]>> ELSE <<>>) \o Pick(i + 1)
    IN  [has_root |-> has_root, normal |-> Pick(1)]

\* PathBuf's PartialEq: equality of the components
PathEq(a, b) == PathComponents(a) = PathComponents(b)

-----------------------------------------------------------------------------
(* Name lookup: profile.rs find_profile_by_name *)

\* A Profile; the identity and signing fields play no part in lookup and
\* reordering and are carried by the profile's source.
Profile(name, source, is_default) ==
    [name |-> name, source |-> source, is_default |-> is_default]

\* Iterator::find / Iterator::position: the first of the indices that satisfy
\* the test, 0 for None
FirstIndex(hits) ==
    IF hits = {} THEN 0
    ELSE CHOOSE i \in hits : \A j \in hits : i <= j

\* [a, b].join(sep)
RECURSIVE JoinStr(_, _)
JoinStr(strs, sep) ==
    IF strs = <<>> THEN <<>>
    ELSE IF Len(strs) = 1 THEN strs[1]
    ELSE strs[1] \o sep \o JoinStr(Tail(strs), sep)

\* The literal ".gitconfig-"
GitconfigDash == <<".", "g", "i", "t", "c", "o", "n", "f", "i", "g", "-">>

\* The literals of the message of find_profile_by_name
ProfileQuote == <<"P", "r", "o", "f", "i", "l", "e", " ", "'">>
NotFoundAvailable ==
    <<"'", " ", "n", "o", "t", " ", "f", "o", "u", "n", "d", ".", " ">> \o
    <<"A", "v", "a", "i", "l", "a", "b", "l", "e", " ", "p", "r", "o", "f", "i", "l", "e", "s", ":", " ">>

\* find_profile_by_name that consults the fallback names before the exact ones
find_profile_by_name_FallbackFirst(profiles, name) ==
    LET search_path == name
        dotted_name == <<".">> \o name
        gitconfig_name == GitconfigDash \o name
        Exact(p) == p.name = name \/ PathEq(p.source, search_path)
        Fallback(p) == p.name = dotted_name \/ p.name = gitconfig_name
        exact == FirstIndex({i \in 1..Len(profiles) : Exact(profiles[i])})
        fallback == FirstIndex({i \in 1..Len(profiles) : Fallback(profiles[i])})
    IN  IF fallback # 0 THEN [ok |-> TRUE, profile |-> profiles[fallback]]
        ELSE IF exact # 0 THEN [ok |-> TRUE, profile |-> profiles[exact]]
        ELSE [ok |-> FALSE,
              query |-> name,
              available |-> JoinStr([i \in 1..Len(profiles) |-> profiles[i].name],
                                    <<",", " ">>),
              message |-> ProfileQuote \o name \o NotFoundAvailable \o
                          JoinStr([i \in 1..Len(profiles) |-> profiles[i].name],
                                  <<",", " ">>)]

\* find_profile_by_name without the fallback names
find_profile_by_name_NoFallback(profiles, name) ==
    LET search_path == name
        Exact(p) == p.name = name \/ PathEq(p.source, search_path)
        exact == FirstIndex({i \in 1..Len(profiles) : Exact(profiles[i])})
    IN  IF exact # 0 THEN [ok |-> TRUE, profile |-> profiles[exact]]
        ELSE [ok |-> FALSE,
              query |-> name,
              available |-> JoinStr([i \in 1..Len(profiles) |-> profiles[i].name],
                                    <<",", " ">>),
              message |-> ProfileQuote \o name \o NotFoundAvailable \o
                          JoinStr([i \in 1..Len(profiles) |-> profiles[i].name],
                                  <<",", " ">>)]

\* The Result of find_profile_by_name: Ok(profile), or Err with the query, the
\* joined names and the message they are formatted into
find_profile_by_name(profiles, name) ==
    LET search_path == name
        dotted_name == <<".">> \o name
        gitconfig_name == GitconfigDash \o name
        Exact(p) == p.name = name \/ PathEq(p.source, search_path)
        Fallback(p) == p.name = dotted_name \/ p.name = gitconfig_name
        exact == FirstIndex({i \in 1..Len(profiles) : Exact(profiles[i])})
        fallback == FirstIndex({i \in 1..Len(profiles) : Fallback(profiles[i])})
    IN  IF exact # 0 THEN [ok |-> TRUE, profile |-> profiles[exact]]
        ELSE IF fallback # 0 THEN [ok |-> TRUE, profile |-> profiles[fallback]]
        ELSE [ok |-> FALSE,
              query |-> name,
              available |-> JoinStr([i \in 1..Len(profiles) |-> profiles[i].name],
                                    <<",", " ">>),
              message |-> ProfileQuote \o name \o NotFoundAvailable \o
                          JoinStr([i \in 1..Len(profiles) |-> profiles[i].name],
                                  <<",", " ">>)]

\* Bound of the lookup specification: the length of the catalog
MaxFindProfiles == 3

FindQueries == {<<"w">>, <<"o">>, <<"/", "t", "/", "w">>}
FindNames == {<<"w">>, <<".", "w">>, GitconfigDash \o <<"w">>, <<"o">>}
FindSources == {<<"w">>, <<"/", "t", "/", "w">>, <<"/", "t", "/", "/", "o", "/">>}
FindProfileSet == {Profile(n, s, FALSE) : n \in FindNames, s \in FindSources}

InitFind ==
    /\ fProfiles \in SeqsUpTo(FindProfileSet, MaxFindProfiles)
    /\ fName \in FindQueries
    /\ fPc = "call"
    /\ fResult = None
    /\ FindOthersIdle

\* One call of find_profile_by_name on the chosen inputs
FindCall ==
    /\ fPc = "call"
    /\ fResult' = find_profile_by_name(fProfiles, fName)
    /\ fPc' = "done"
    /\ UNCHANGED <<fProfiles, fName>>
    /\ FindFrame

NextFind == FindCall

SpecFind == InitFind /\ [][NextFind]_vars

-----------------------------------------------------------------------------
(* C1 *)

HasName(profiles, n) == \E i \in 1..Len(profiles) : profiles[i].name = n

HasExact(profiles, q) ==
    \E i \in 1..Len(profiles) :
        profiles[i].name = q \/ PathEq(profiles[i].source, q)

\* C1: when no profile has name q or source q and the catalog holds both a
\* profile named ".q" and one named ".gitconfig-q", the profile named ".q"
\* is returned, whatever the order of the two in the list.
C1_DotPrefixBeatsGitconfigPrefix ==
    (/\ fPc = "done"
     /\ ~HasExact(fProfiles, fName)
     /\ HasName(fProfiles, <<".">> \o fName)
     /\ HasName(fProfiles, GitconfigDash \o fName))
        => (fResult.ok /\ fResult.profile.name = <<".">> \o fName)

-----------------------------------------------------------------------------
(* State store: state.rs *)

STATE_VERSION == 2

\* State::default()
DefaultState == [repositories |-> <<>>, last_scan |-> NoneOpt]

\* bitcode::serialize of a StateEnvelope: the fields in declaration order,
\* a Vec as its length and its elements, an Option as a tag and its value
Encode(envelope) ==
    <<envelope.version, Len(envelope.state.repositories)>>
        \o envelope.state.repositories
        \o (IF envelope.state.last_scan = NoneOpt THEN <<0>>
            ELSE <<1, envelope.state.last_scan[1]>>)

\* bitcode::deserialize::<StateEnvelope>: Ok(envelope), or Err when the bytes
\* are not the encoding of an envelope
Decode(bytes) ==
    IF Len(bytes) < 2 THEN Err("decode")
    ELSE LET n == bytes[2]
         IN  IF Len(bytes) < n + 3 THEN Err("decode")
             ELSE LET paths == SubSeq(bytes, 3, n + 2)
                      tag == bytes[n + 3]
                  IN  IF tag = 0 /\ Len(bytes) = n + 3
                      THEN Ok([version |-> bytes[1],
                               state |-> [repositories |-> paths, last_scan |-> NoneOpt]])
                      ELSE IF tag = 1 /\ Len(bytes) = n + 4
                      THEN Ok([version |-> bytes[1],
                               state |-> [repositories |-> paths,
                                          last_scan |-> Some(bytes[n + 4])]])
                      ELSE Err("decode")

\* SaveBytes with the last-scan time left out of the envelope
SaveBytes_DropsLastScan(state) ==
    Encode([version |-> STATE_VERSION,
            state |-> [repositories |-> state.repositories,
                       last_scan |-> NoneOpt]])

\* The bytes save() writes for a State
SaveBytes(state) ==
    Encode([version |-> STATE_VERSION,
            state |-> [repositories |-> state.repositories,
                       last_scan |-> state.last_scan]])

\* The file after fs::write(&path, bytes) succeeded: a new file can be read,
\* an existing one keeps its permissions
Written(file, bytes) ==
    [exists |-> TRUE,
     readable |-> IF file.exists THEN file.readable ELSE TRUE,
     bytes |-> bytes]

\* LoadMatch without the guard on the version of the envelope
LoadMatch_AnyVersion(bytes) ==
    LET decoded == Decode(bytes)
    IN  IF decoded.ok
        THEN Some(decoded.val.state)
        ELSE NoneOpt

\* The match of load() on the decoded bytes: the stored state when the
\* envelope carries the current version, else NoneOpt (the file is stale)
LoadMatch(bytes) ==
    LET decoded == Decode(bytes)
    IN  IF decoded.ok /\ decoded.val.version = STATE_VERSION
        THEN Some(decoded.val.state)
        ELSE NoneOpt

\* Bounds of the store specification
NumProcs == 2
MaxFileLen == 4
MaxByte == 2

Procs == 1..NumProcs
FileBytes == SeqsUpTo(0..MaxByte, MaxFileLen)
AbsentFile == [exists |-> FALSE]
\* The states given to save(): an empty scan, a scan that found one path, and
\* a scan that found two when the clock stood before the epoch, so that
\* mark_scanned left last_scan empty
SaveStates ==
    {[repositories |-> <<>>, last_scan |-> Some(1)],
     [repositories |-> <<1>>, last_scan |-> Some(2)],
     [repositories |-> <<1, 0>>, last_scan |-> NoneOpt]}
StoreOps ==
    {[kind |-> "load"]} \cup {[kind |-> "save", state |-> st] : st \in SaveStates}

InitStore ==
    /\ sFile \in {AbsentFile}
            \cup {[exists |-> TRUE, readable |-> r, bytes |-> b] :
                     r \in BOOLEAN, b \in FileBytes}
    /\ sFile0 = sFile /\ sLast = NoneOpt
    /\ sDataDir \in BOOLEAN
    /\ sOp \in [Procs -> StoreOps]
    /\ sPc = [p \in Procs |-> "start"]
    /\ sBytes = [p \in Procs |-> <<>>]
    /\ sResult = [p \in Procs |-> None]
    /\ StoreOthersIdle

Finish(p, result) ==
    /\ sResult' = [sResult EXCEPT ![p] = result]
    /\ sPc' = [sPc EXCEPT ![p] = "done"]

\* load(): state_path() and the path.exists() test
LoadStart(p) ==
    /\ sPc[p] = "start"
    /\ sOp[p].kind = "load"
    /\ IF ~sDataDir \/ ~sFile.exists
       THEN Finish(p, Ok(DefaultState))
       ELSE sPc' = [sPc EXCEPT ![p] = "read"] /\ UNCHANGED sResult
    /\ UNCHANGED <<sFile, sFile0, sLast, sDataDir, sOp, sBytes>>
    /\ StoreFrame

\* LoadRead with the read error swallowed: a failed read yields the default
LoadRead_SwallowError(p) ==
    /\ sPc[p] = "read"
    /\ IF ~sFile.exists \/ ~sFile.readable
       THEN /\ Finish(p, Ok(DefaultState))
            /\ UNCHANGED sBytes
       ELSE /\ sBytes' = [sBytes EXCEPT ![p] = sFile.bytes]
            /\ IF LoadMatch(sFile.bytes) # NoneOpt
               THEN Finish(p, Ok(LoadMatch(sFile.bytes)[1]))
               ELSE sPc' = [sPc EXCEPT ![p] = "remove"] /\ UNCHANGED sResult
    /\ UNCHANGED <<sFile, sFile0, sLast, sDataDir, sOp>>
    /\ StoreFrame

\* load(): fs::read(&path).context(..)? and the match on the decoded bytes
LoadRead(p) ==
    /\ sPc[p] = "read"
    /\ IF ~sFile.exists \/ ~sFile.readable
       THEN /\ Finish(p, Err("Failed to read yarm state file"))
            /\ UNCHANGED sBytes
       ELSE /\ sBytes' = [sBytes EXCEPT ![p] = sFile.bytes]
            /\ IF LoadMatch(sFile.bytes) # NoneOpt
               THEN Finish(p, Ok(LoadMatch(sFile.bytes)[1]))
               ELSE sPc' = [sPc EXCEPT ![p] = "remove"] /\ UNCHANGED sResult
    /\ UNCHANGED <<sFile, sFile0, sLast, sDataDir, sOp>>
    /\ StoreFrame

\* load(): let _ = fs::remove_file(&path); Ok(State::default())
LoadRemove(p) ==
    /\ sPc[p] = "remove"
    /\ sFile' = AbsentFile
    /\ Finish(p, Ok(DefaultState))
    /\ UNCHANGED <<sFile0, sLast, sDataDir, sOp, sBytes>>
    /\ StoreFrame

\* save(state): state_path(), create_dir_all, encode and fs::write.  A file
\* that cannot be read may or may not accept the write.
Save(p) ==
    /\ sPc[p] = "start"
    /\ sOp[p].kind = "save"
    /\ IF ~sDataDir
       THEN Finish(p, Err("Could not determine data directory")) /\ UNCHANGED <<sFile, sLast>>
       ELSE \/ /\ sFile' = Written(sFile, SaveBytes(sOp[p].state))
               /\ sLast' = Some(sOp[p].state)
               /\ Finish(p, Ok(<<>>))
            \/ /\ sFile.exists /\ ~sFile.readable
               /\ Finish(p, Err("Failed to write yarm state file"))
               /\ UNCHANGED <<sFile, sLast>>
    /\ UNCHANGED <<sFile0, sDataDir, sOp, sBytes>>
    /\ StoreFrame

NextStore ==
    \E p \in Procs : LoadStart(p) \/ LoadRead(p) \/ LoadRemove(p) \/ Save(p)

SpecStore == InitStore /\ [][NextStore]_vars

-----------------------------------------------------------------------------
(* C3 *)

\* A finished load() of invocation p that ran before any other invocation
\* took a step, so that it met the file as it was at the start
LoadAlone(p) ==
    /\ sOp[p].kind = "load"
    /\ sPc[p] = "done"
    /\ \A q \in Procs \ {p} : sPc[q] = "start"

\* The file at the start exists and cannot be read
Unreadable0 == sFile0.exists /\ ~sFile0.readable

\* The file at the start is absent, undecodable or of another version
AbsentOrStale0 ==
    \/ ~sFile0.exists
    \/ sFile0.readable /\ LoadMatch(sFile0.bytes) = NoneOpt

\* C3 as stated: load() never returns an error because of the state file's
\* condition; absent, unreadable, undecodable or of another version, the
\* result is Ok with the default State.
C3_LoadNeverFails ==
    \A p \in Procs :
        (LoadAlone(p) /\ (Unreadable0 \/ AbsentOrStale0))
            => sResult[p] = Ok(DefaultState)

\* C3 amended: load() returns Ok with the default State when the file is
\* absent, undecodable or of another version (or no data directory is
\* known); when the file exists and reading it fails, load() returns the
\* error "Failed to read yarm state file".
C3_LoadFailsOnlyOnRead ==
    \A p \in Procs :
        LoadAlone(p) =>
            /\ (~sDataDir \/ AbsentOrStale0) => sResult[p] = Ok(DefaultState)
            /\ (sDataDir /\ Unreadable0)
                   => sResult[p] = Err("Failed to read yarm state file")
            /\ ~sResult[p].ok => (sDataDir /\ Unreadable0)

\* A load() that met a file it could not read and returned the error
C3_Witness ==
    \E p \in Procs :
        /\ LoadAlone(p)
        /\ sDataDir
        /\ Unreadable0
        /\ ~sResult[p].ok

-----------------------------------------------------------------------------
(* Repository scanner: commands/scan.rs *)

\* Names of directory entries
Name_git == <<".", "g", "i", "t">>
Name_p == <<"p">>
Name_q == <<"q">>
Name_a == <<"a">>
Name_b == <<"b">>
Name_e == <<"e">>
Name_r == <<"r">>
Name_f == <<"f">>
Name_hidden == <<".", "h">>
Name_xb == <<"x", "-", "b">>
Name_target == <<"t", "a", "r", "g", "e", "t">>

\* Directories to skip during recursive scanning
SKIP_DIRS ==
    {<<"n", "o", "d", "e", "_", "m", "o", "d", "u", "l", "e", "s">>,
     <<"t", "a", "r", "g", "e", "t">>,
     <<"v", "e", "n", "d", "o", "r">>,
     <<"_", "_", "p", "y", "c", "a", "c", "h", "e", "_", "_">>,
     <<".", "b", "u", "i", "l", "d">>}

\* Path::parent and Path::file_name of a path with at least one component
Parent(path) == SubSeq(path, 1, Len(path) - 1)
FileName(path) == path[Len(path)]

\* a is a proper ancestor of b
IsProperAncestor(a, b) == Len(a) < Len(b) /\ SubSeq(b, 1, Len(a)) = a

\* Path::strip_prefix(root) of a path beneath root
StripPrefix(path, base) == SubSeq(path, Len(base) + 1, Len(path))

\* The relative path as the string the glob set sees
RelString(rel) == JoinStr(rel, <<"/">>)

\* A glob of the exclude set, built with literal_separator(true): '*' matches
\* any run of characters other than '/', every other character itself
RECURSIVE WildMatch(_, _)
WildMatch(pat, txt) ==
    IF pat = <<>> THEN txt = <<>>
    ELSE IF Head(pat) = "*"
         THEN \/ WildMatch(Tail(pat), txt)
              \/ txt # <<>> /\ Head(txt) # "/" /\ WildMatch(pat, Tail(txt))
         ELSE txt # <<>> /\ Head(txt) = Head(pat) /\ WildMatch(Tail(pat), Tail(txt))

\* GlobSet::is_match
ExcludeIsMatch(exclude, rel) == \E pat \in exclude : WildMatch(pat, RelString(rel))

\* fs::read_dir(dir): the entries of a directory that can be read
Entries(dir) == {e \in fsDirs \cup fsFiles : Len(e) > 0 /\ Parent(e) = dir}
CanReadDir(dir) == dir \in fsDirs /\ dir \notin fsUnreadable

\* The test `name == ".git"` over the entries of dir
HasGitEntry(dir) == \E e \in Entries(dir) : FileName(e) = Name_git

\* SkippedByName without the test for a leading '.'
SkippedByName_SkipListOnly(name) == name \in SKIP_DIRS

\* The tests of the entry loop that drop a subdirectory by its name
SkippedByName(name) == name[1] = "." \/ name \in SKIP_DIRS

\* The entries of dir that the loop collects in subdirs
Subdirs(dir, scan_root, exclude) ==
    {e \in Entries(dir) :
        /\ FileName(e) # Name_git
        /\ e \in fsDirs
        /\ ~SkippedByName(FileName(e))
        /\ ~ExcludeIsMatch(exclude, StripPrefix(e, scan_root))}

\* MayDescend with the comparison off by one
MayDescend_OffByOne(max_depth, depth) == max_depth = NoneOpt \/ depth <= max_depth[1]

\* max_depth.is_none_or(|limit| depth < limit)
MayDescend(max_depth, depth) == max_depth = NoneOpt \/ depth < max_depth[1]

\* The orders in which the entries of a set may be enumerated
Orders(S) ==
    {o \in [1..Cardinality(S) -> S] : \A i, j \in 1..Cardinality(S) : o[i] = o[j] => i = j}

\* The byte of a character (ASCII)
LowerCase ==
    <<"a", "b", "c", "d", "e", "f", "g", "h", "i", "j", "k", "l", "m",
      "n", "o", "p", "q", "r", "s", "t", "u", "v", "w", "x", "y", "z">>
Ascii(c) ==
    CASE c = "-" -> 45
      [] c = "." -> 46
      [] c = "_" -> 95
      [] OTHER -> 96 + CHOOSE i \in 1..Len(LowerCase) : LowerCase[i] = c

\* Ord of OsStr: bytewise lexicographic
RECURSIVE StrLess(_, _)
StrLess(a, b) ==
    IF b = <<>> THEN FALSE
    ELSE IF a = <<>> THEN TRUE
    ELSE IF Head(a) # Head(b) THEN Ascii(Head(a)) < Ascii(Head(b))
    ELSE StrLess(Tail(a), Tail(b))

\* Ord of PathBuf: lexicographic over the components
RECURSIVE PathLess(_, _)
PathLess(a, b) ==
    IF b = <<>> THEN FALSE
    ELSE IF a = <<>> THEN TRUE
    ELSE IF Head(a) # Head(b) THEN StrLess(Head(a), Head(b))
    ELSE PathLess(Tail(a), Tail(b))

\* Vec::sort
RECURSIVE InsertSorted(_, _)
InsertSorted(sorted, x) ==
    IF sorted = <<>> THEN <<x>>
    ELSE IF PathLess(x, Head(sorted)) THEN <<x>> \o sorted
    ELSE <<Head(sorted)>> \o InsertSorted(Tail(sorted), x)

RECURSIVE SortPaths(_)
SortPaths(seq) ==
    IF seq = <<>> THEN <<>>
    ELSE InsertSorted(SortPaths(SubSeq(seq, 1, Len(seq) - 1)), seq[Len(seq)])

\* Dedup left out
Dedup_Missing(seq) == seq

\* Vec::dedup: consecutive equal elements collapse to the first
RECURSIVE Dedup(_)
Dedup(seq) ==
    IF Len(seq) <= 1 THEN seq
    ELSE IF seq[1] = seq[2] THEN Dedup(Tail(seq))
    ELSE <<seq[1]>> \o Dedup(Tail(seq))

\* State::mark_scanned: the seconds since the epoch, None when the clock
\* stands before the epoch
ClockReadings == {NoneOpt, Some(1)}

\* run: config::load, pools.is_empty(), build_exclude_set
RunStart ==
    /\ rPc = "start"
    /\ IF cfgPools = <<>>
       THEN /\ rResult' = Err("No repository pools configured")
            /\ rPc' = "done"
            /\ UNCHANGED rPool
       ELSE /\ rPc' = "pools"
            /\ rPool' = 1
            /\ UNCHANGED rResult
    /\ UNCHANGED <<repos, pool_count, fsVars, cfgVars, dirVars, storeVars>>
    /\ ScanFrame

\* run: the body of `for pool in &pools` up to the call of scan_directory
RunPool ==
    /\ rPc = "pools"
    /\ rPool <= Len(cfgPools)
    /\ IF cfgPools[rPool] \notin fsDirs
       THEN /\ rPool' = rPool + 1
            /\ UNCHANGED <<rPc, pool_count, dirVars>>
       ELSE /\ pool_count' = pool_count + 1
            /\ root' = cfgPools[rPool]
            /\ stack' = <<[dir |-> cfgPools[rPool], depth |-> 0]>>
            /\ found' = <<>>
            /\ pushes' = [d \in fsDirs |-> IF d = cfgPools[rPool] THEN 1 ELSE 0]
            /\ pops' = [d \in fsDirs |-> 0]
            /\ rPc' = "scan"
            /\ UNCHANGED rPool
    /\ UNCHANGED <<repos, rResult, fsVars, cfgVars, storeVars>>
    /\ ScanFrame

\* The counts with one more for each directory of the set
Counted(counts, dirs) == [d \in DOMAIN counts |-> counts[d] + (IF d \in dirs THEN 1 ELSE 0)]

\* ScanDir that reports a repository and descends into it all the same
ScanDir_DescendsIntoRepos ==
    /\ rPc = "scan"
    /\ stack # <<>>
    /\ LET top == stack[Len(stack)]
           rest == SubSeq(stack, 1, Len(stack) - 1)
       IN  IF ~CanReadDir(top.dir)
           THEN stack' = rest /\ UNCHANGED found
           ELSE /\ found' = IF HasGitEntry(top.dir) THEN Append(found, top.dir) ELSE found
                /\ IF MayDescend(cfgMaxDepth, top.depth)
                   THEN \E subdirs \in Orders(Subdirs(top.dir, root, cfgExclude)) :
                            stack' = rest \o [i \in 1..Len(subdirs) |->
                                                 [dir |-> subdirs[i], depth |-> top.depth + 1]]
                   ELSE stack' = rest
    /\ pops' = Counted(pops, {stack[Len(stack)].dir})
    /\ pushes' = Counted(pushes, {stack'[i].dir : i \in Len(stack)..Len(stack')})
    /\ UNCHANGED <<root, runVars, fsVars, cfgVars, storeVars>>
    /\ ScanFrame

\* ScanDir that tests the depth bound before it looks for .git, so that a
\* directory at the bound is not reported
ScanDir_DepthBeforeRepo ==
    /\ rPc = "scan"
    /\ stack # <<>>
    /\ LET top == stack[Len(stack)]
           rest == SubSeq(stack, 1, Len(stack) - 1)
       IN  IF ~CanReadDir(top.dir) \/ ~MayDescend(cfgMaxDepth, top.depth)
           THEN stack' = rest /\ UNCHANGED found
           ELSE IF HasGitEntry(top.dir)
           THEN stack' = rest /\ found' = Append(found, top.dir)
           ELSE /\ \E subdirs \in Orders(Subdirs(top.dir, root, cfgExclude)) :
                      stack' = rest \o [i \in 1..Len(subdirs) |->
                                           [dir |-> subdirs[i], depth |-> top.depth + 1]]
                /\ UNCHANGED found
    /\ pops' = Counted(pops, {stack[Len(stack)].dir})
    /\ pushes' = Counted(pushes, {stack'[i].dir : i \in Len(stack)..Len(stack')})
    /\ UNCHANGED <<root, runVars, fsVars, cfgVars, storeVars>>
    /\ ScanFrame

\* ScanDir that gives up the scan at a directory it cannot read
ScanDir_AbortsOnUnreadable ==
    /\ rPc = "scan"
    /\ stack # <<>>
    /\ LET top == stack[Len(stack)]
           rest == SubSeq(stack, 1, Len(stack) - 1)
       IN  IF ~CanReadDir(top.dir)
           THEN stack' = <<>> /\ UNCHANGED found
           ELSE IF HasGitEntry(top.dir)
           THEN stack' = rest /\ found' = Append(found, top.dir)
           ELSE IF MayDescend(cfgMaxDepth, top.depth)
           THEN /\ \E subdirs \in Orders(Subdirs(top.dir, root, cfgExclude)) :
                      stack' = rest \o [i \in 1..Len(subdirs) |->
                                           [dir |-> subdirs[i], depth |-> top.depth + 1]]
                /\ UNCHANGED found
           ELSE stack' = rest /\ UNCHANGED found
    /\ pops' = Counted(pops, {stack[Len(stack)].dir})
    /\ pushes' = Counted(pushes, {stack'[i].dir : i \in Len(stack)..Len(stack')})
    /\ UNCHANGED <<root, runVars, fsVars, cfgVars, storeVars>>
    /\ ScanFrame

\* scan_directory: one iteration of `while let Some((dir, depth)) = stack.pop()`
ScanDir ==
    /\ rPc = "scan"
    /\ stack # <<>>
    /\ LET top == stack[Len(stack)]
           rest == SubSeq(stack, 1, Len(stack) - 1)
       IN  IF ~CanReadDir(top.dir)
           THEN stack' = rest /\ UNCHANGED found
           ELSE IF HasGitEntry(top.dir)
           THEN stack' = rest /\ found' = Append(found, top.dir)
           ELSE IF MayDescend(cfgMaxDepth, top.depth)
           THEN /\ \E subdirs \in Orders(Subdirs(top.dir, root, cfgExclude)) :
                      stack' = rest \o [i \in 1..Len(subdirs) |->
                                           [dir |-> subdirs[i], depth |-> top.depth + 1]]
                /\ UNCHANGED found
           ELSE stack' = rest /\ UNCHANGED found
    /\ pops' = Counted(pops, {stack[Len(stack)].dir})
    /\ pushes' = Counted(pushes, {stack'[i].dir : i \in Len(stack)..Len(stack')})
    /\ UNCHANGED <<root, runVars, fsVars, cfgVars, storeVars>>
    /\ ScanFrame

\* scan_directory returns; run: repos.extend(found)
ScanReturn ==
    /\ rPc = "scan"
    /\ stack = <<>>
    /\ repos' = repos \o found
    /\ rPool' = rPool + 1
    /\ rPc' = "pools"
    /\ UNCHANGED <<pool_count, rResult, dirVars, fsVars, cfgVars, storeVars>>
    /\ ScanFrame

\* RunFinish that merges the paths of the stored inventory into the new one
RunFinish_KeepsOldInventory ==
    /\ rPc = "pools"
    /\ rPool > Len(cfgPools)
    /\ rPc' = "done"
    /\ IF pool_count = 0
       THEN /\ rResult' = Err("None of the configured pool directories exist")
            /\ UNCHANGED <<repos, sFile, sLast>>
       ELSE /\ LET kept == IF sFile.exists /\ LoadMatch(sFile.bytes) # NoneOpt
                           THEN LoadMatch(sFile.bytes)[1].repositories
                           ELSE <<>>
               IN  repos' = Dedup(SortPaths(kept \o repos))
            /\ \E now \in ClockReadings :
                 IF ~sDataDir
                 THEN /\ rResult' = Err("Could not determine data directory")
                      /\ UNCHANGED <<sFile, sLast>>
                 ELSE \/ /\ sFile' = Written(sFile, SaveBytes([repositories |-> repos',
                                                                 last_scan |-> now]))
                         /\ sLast' = Some([repositories |-> repos', last_scan |-> now])
                         /\ rResult' = Ok(<<>>)
                      \/ /\ sFile.exists /\ ~sFile.readable
                         /\ rResult' = Err("Failed to write yarm state file")
                         /\ UNCHANGED <<sFile, sLast>>
    /\ UNCHANGED <<rPool, pool_count, dirVars, fsVars, cfgVars>>
    /\ UNCHANGED <<sFile0, sDataDir, sOp, sPc, sBytes, sResult>>
    /\ ScanFrame

\* run after the loop: the pool_count test, sort, dedup, mark_scanned and
\* state::save
RunFinish ==
    /\ rPc = "pools"
    /\ rPool > Len(cfgPools)
    /\ rPc' = "done"
    /\ IF pool_count = 0
       THEN /\ rResult' = Err("None of the configured pool directories exist")
            /\ UNCHANGED <<repos, sFile, sLast>>
       ELSE /\ repos' = Dedup(SortPaths(repos))
            /\ \E now \in ClockReadings :
                 IF ~sDataDir
                 THEN /\ rResult' = Err("Could not determine data directory")
                      /\ UNCHANGED <<sFile, sLast>>
                 ELSE \/ /\ sFile' = Written(sFile, SaveBytes([repositories |-> repos',
                                                                 last_scan |-> now]))
                         /\ sLast' = Some([repositories |-> repos', last_scan |-> now])
                         /\ rResult' = Ok(<<>>)
                      \/ /\ sFile.exists /\ ~sFile.readable
                         /\ rResult' = Err("Failed to write yarm state file")
                         /\ UNCHANGED <<sFile, sLast>>
    /\ UNCHANGED <<rPool, pool_count, dirVars, fsVars, cfgVars>>
    /\ UNCHANGED <<sFile0, sDataDir, sOp, sPc, sBytes, sResult>>
    /\ ScanFrame

NextScan == RunStart \/ RunPool \/ ScanDir \/ ScanReturn \/ RunFinish

\* Bounds of the scanner specifications
MaxLeaves == 3
MaxDepthLimit == 2
MaxPools == 2

\* The directories a set of leaf entries stands for: every proper prefix of a
\* leaf, and the leaves that are directories
DirsOf(leaves) ==
    UNION {{SubSeq(l.path, 1, n) : n \in 0..(Len(l.path) - 1)} : l \in leaves}
        \cup {l.path : l \in {x \in leaves : x.kind = "dir"}}
FilesOf(leaves) == {l.path : l \in {x \in leaves : x.kind = "file"}}

DirLeaf(path) == [path |-> path, kind |-> "dir"]
FileLeaf(path) == [path |-> path, kind |-> "file"]

\* The entries the trees of the single-root specification are made of
ScanLeaves ==
    {DirLeaf(<<Name_p, Name_git>>),
     DirLeaf(<<Name_p, Name_a, Name_git>>),
     DirLeaf(<<Name_p, Name_a, Name_b, Name_git>>),
     DirLeaf(<<Name_p, Name_a, Name_b, Name_r, Name_git>>),
     DirLeaf(<<Name_p, Name_a, Name_e, Name_git>>),
     FileLeaf(<<Name_p, Name_b, Name_git>>),
     DirLeaf(<<Name_p, Name_hidden, Name_git>>),
     DirLeaf(<<Name_p, Name_target, Name_git>>),
     DirLeaf(<<Name_p, Name_a, Name_target, Name_r, Name_git>>),
     DirLeaf(<<Name_p, Name_xb, Name_r, Name_git>>),
     DirLeaf(<<Name_p, Name_e>>),
     FileLeaf(<<Name_p, Name_f>>)}

ExcludeSets ==
    {{}, {<<"*", "-", "b">>}, {<<"a", "/", "e">>}}

MaxDepths == {NoneOpt} \cup {Some(n) : n \in 0..MaxDepthLimit}

UnreadableCandidates == {<<Name_p>>, <<Name_p, Name_a>>}

InitTree(universe) ==
    \E leaves \in {L \in SUBSET universe : Cardinality(L) <= MaxLeaves} :
        /\ fsDirs = DirsOf(leaves) \cup {<<Name_p>>}
        /\ fsFiles = FilesOf(leaves)
        /\ fsUnreadable \in {{}} \cup {{d} : d \in UnreadableCandidates \cap DirsOf(leaves)}

InitRunIdle ==
    /\ rPc = "start" /\ rPool = 0 /\ repos = <<>> /\ pool_count = 0 /\ rResult = None
    /\ root = <<>> /\ stack = <<>> /\ found = <<>> /\ pushes = <<>> /\ pops = <<>>
    /\ sOp = <<>> /\ sPc = <<>> /\ sBytes = <<>> /\ sResult = <<>>
    /\ ScanOthersIdle

\* One pool, every kind of tree
InitScan ==
    /\ InitTree(ScanLeaves)
    /\ cfgPools = << <<Name_p>> >>
    /\ cfgExclude \in ExcludeSets
    /\ cfgMaxDepth \in MaxDepths
    /\ sFile = AbsentFile /\ sFile0 = sFile /\ sLast = NoneOpt /\ sDataDir = TRUE
    /\ InitRunIdle

SpecScan == InitScan /\ [][NextScan]_vars

\* The entries of the trees of the termination specification: chains of
\* several levels, an empty directory and excluded branches
DescentLeaves ==
    {DirLeaf(<<Name_p, Name_a, Name_git>>),
     DirLeaf(<<Name_p, Name_a, Name_b, Name_r, Name_git>>),
     DirLeaf(<<Name_p, Name_a, Name_e, Name_git>>),
     FileLeaf(<<Name_p, Name_b, Name_git>>),
     DirLeaf(<<Name_p, Name_xb, Name_r, Name_git>>),
     DirLeaf(<<Name_p, Name_e>>)}

InitDescent ==
    /\ InitTree(DescentLeaves)
    /\ cfgPools = << <<Name_p>> >>
    /\ cfgExclude \in ExcludeSets
    /\ cfgMaxDepth \in MaxDepths
    /\ sFile = AbsentFile /\ sFile0 = sFile /\ sLast = NoneOpt /\ sDataDir = TRUE
    /\ InitRunIdle

\* scan_directory runs on one thread that is not held up: an iteration of
\* its loop that can be taken is taken
SpecScanFair == InitDescent /\ [][NextScan]_vars /\ WF_vars(ScanDir)

\* The entries of the trees of the several-pools specification
RunLeaves ==
    {DirLeaf(<<Name_p, Name_git>>),
     DirLeaf(<<Name_p, Name_a, Name_b, Name_git>>),
     DirLeaf(<<Name_p, Name_a, Name_xb, Name_git>>),
     DirLeaf(<<Name_p, Name_b, Name_git>>),
     DirLeaf(<<Name_q, Name_r, Name_git>>)}

PoolSet == {<<Name_p>>, <<Name_p, Name_a>>, <<Name_q>>}

\* An inventory left by an earlier scan
OldInventory ==
    Written(AbsentFile,
            SaveBytes([repositories |-> << <<Name_p, Name_b>>, <<Name_p, Name_e>> >>,
                       last_scan |-> Some(0)]))

\* Pools that overlap, repeat or do not exist
InitRun ==
    /\ InitTree(RunLeaves)
    /\ cfgPools \in SeqsUpTo(PoolSet, MaxPools)
    /\ cfgExclude \in {{}, {<<"*", "-", "b">>}}
    /\ cfgMaxDepth \in MaxDepths
    /\ sFile \in {AbsentFile, OldInventory} /\ sFile0 = sFile /\ sLast = NoneOpt /\ sDataDir = TRUE
    /\ InitRunIdle

SpecRun == InitRun /\ [][NextScan]_vars

-----------------------------------------------------------------------------
(* The scanner's claims: C4 to C8 *)

\* scan_directory has emptied its stack and returns found
ScanReturned == rPc = "scan" /\ stack = <<>>

FoundSet == {found[i] : i \in 1..Len(found)}
ReposSet == {repos[i] : i \in 1..Len(repos)}

\* d is scan_root or lies beneath it
UnderRoot(scan_root, d) == d = scan_root \/ IsProperAncestor(scan_root, d)

\* The level of d below scan_root (the root is level 0)
Level(scan_root, d) == Len(d) - Len(scan_root)

\* The directories on the way from scan_root to d: below the root down to d
\* itself, and from the root down to the parent of d
BelowRootUpTo(scan_root, d) == {SubSeq(d, 1, n) : n \in (Len(scan_root) + 1)..Len(d)}
AncestorsFromRoot(scan_root, d) == {SubSeq(d, 1, n) : n \in Len(scan_root)..(Len(d) - 1)}

\* d holds an entry named .git, a directory or a regular file
IsRepository(d) == d \o <<Name_git>> \in fsDirs \cup fsFiles

\* x, a directory below scan_root, is hidden, in the skip list or excluded
Blocked(scan_root, x) ==
    \/ FileName(x)[1] = "."
    \/ FileName(x) \in SKIP_DIRS
    \/ \E pat \in cfgExclude : WildMatch(pat, RelString(StripPrefix(x, scan_root)))

WithinDepth(scan_root, d) ==
    cfgMaxDepth = NoneOpt \/ Level(scan_root, d) <= cfgMaxDepth[1]

\* The repositories the descent rules reach from scan_root
ExpectedRepos(scan_root) ==
    {d \in fsDirs :
        /\ UnderRoot(scan_root, d)
        /\ IsRepository(d)
        /\ d \notin fsUnreadable
        /\ WithinDepth(scan_root, d)
        /\ \A x \in BelowRootUpTo(scan_root, d) : ~Blocked(scan_root, x)
        /\ \A a \in AncestorsFromRoot(scan_root, d) :
               a \notin fsUnreadable /\ ~IsRepository(a)}

\* The tree made of root/.git and root/child/.git
C4_Tree ==
    /\ fsDirs = DirsOf({DirLeaf(<<Name_p, Name_git>>), DirLeaf(<<Name_p, Name_a, Name_git>>)})
    /\ fsFiles = {}
    /\ fsUnreadable = {}
    /\ cfgExclude = {}

\* C4 as stated: over root/.git and root/child/.git, maxDepth = 0 yields only
\* root and maxDepth = None yields both root and root/child.
C4_NoneYieldsBoth ==
    (ScanReturned /\ C4_Tree) =>
        /\ cfgMaxDepth = Some(0) => found = << <<Name_p>> >>
        /\ cfgMaxDepth = NoneOpt => FoundSet = {<<Name_p>>, <<Name_p, Name_a>>}

\* C4 amended: over root/.git and root/child/.git, maxDepth = 0 yields only
\* root, and maxDepth = None yields only root as well: the root holds .git
\* and is not descended into.
C4_RootOnlyAtAnyDepth ==
    (ScanReturned /\ C4_Tree /\ cfgMaxDepth \in {Some(0), NoneOpt})
        => found = << <<Name_p>> >>

C4_Witness ==
    /\ ScanReturned
    /\ C4_Tree
    /\ cfgMaxDepth = NoneOpt
    /\ found = << <<Name_p>> >>

\* C5: a directory that holds an entry named .git (directory or file) is
\* reported and never descended into: nothing on the stack and nothing
\* reported lies beneath a directory with a .git entry, every reported
\* directory holds one, and no reported path is a proper ancestor of another.
C5_NeverDescendsIntoRepository ==
    rPc = "scan" =>
        /\ \A i \in 1..Len(stack) :
               \A a \in AncestorsFromRoot(root, stack[i].dir) : ~IsRepository(a)
        /\ \A d \in FoundSet :
               /\ IsRepository(d)
               /\ \A a \in AncestorsFromRoot(root, d) : ~IsRepository(a)
        /\ \A d, e \in FoundSet : ~IsProperAncestor(d, e)

\* A repository with a repository beneath it, and one marked by a .git file
C5_Witness ==
    /\ ScanReturned
    /\ IsRepository(<<Name_p, Name_a>>)
    /\ IsRepository(<<Name_p, Name_a, Name_b>>)
    /\ <<Name_p, Name_b, Name_git>> \in fsFiles
    /\ FoundSet = {<<Name_p, Name_a>>, <<Name_p, Name_b>>}

\* The depth bound on what is inspected and reported
DepthBoundHolds ==
    /\ \A i \in 1..Len(stack) :
           /\ stack[i].depth = Level(root, stack[i].dir)
           /\ WithinDepth(root, stack[i].dir)
    /\ \A d \in FoundSet : WithinDepth(root, d)

\* C6 as stated: with maxDepth = Some(n) everything inspected or reported
\* lies at most n levels below the root, and a repository at level <= n is
\* reported whenever none of its ancestors below the root is skipped,
\* excluded or itself a repository; with None there is no level bound.
\* (A directory that cannot be read counts as skipped here.)
C6_ReportedWheneverAncestorsPass ==
    rPc = "scan" =>
        /\ DepthBoundHolds
        /\ stack = <<>> =>
               \A d \in fsDirs :
                   (/\ UnderRoot(root, d)
                    /\ IsRepository(d)
                    /\ WithinDepth(root, d)
                    /\ \A a \in AncestorsFromRoot(root, d) \cup {d} : a \notin fsUnreadable
                    /\ \A x \in BelowRootUpTo(root, d) \ {d} :
                           ~Blocked(root, x) /\ ~IsRepository(x))
                       => d \in FoundSet

\* C6 amended: with maxDepth = Some(n) everything inspected or reported lies
\* at most n levels below the root; a repository at level <= n is reported
\* whenever it and its ancestors up to the root can be read, neither it nor
\* an ancestor below the root is skipped or excluded, and no ancestor, the
\* root included, is itself a repository; with None there is no level bound.
C6_DepthBoundAndReach ==
    rPc = "scan" =>
        /\ DepthBoundHolds
        /\ stack = <<>> => \A d \in ExpectedRepos(root) : d \in FoundSet

\* With maxDepth = 1 a repository at level 1 is reported and one at level 2,
\* cut off by the bound alone, is not
C6_Witness ==
    /\ ScanReturned
    /\ cfgMaxDepth = Some(1)
    /\ fsUnreadable = {}
    /\ IsRepository(<<Name_p, Name_a, Name_b>>)
    /\ ~IsRepository(<<Name_p, Name_a>>)
    /\ ~IsRepository(<<Name_p>>)
    /\ FoundSet = {<<Name_p, Name_b>>}

\* C7: no reported repository other than the root is or lies beneath a
\* directory below the root that is hidden, in the skip list or excluded by
\* a pattern on its path relative to the root; repositories of sibling
\* subtrees that match none of these are still reported.
C7_BlockedSubtreesNeverReported ==
    rPc = "scan" =>
        /\ \A d \in FoundSet :
               \A x \in BelowRootUpTo(root, d) :
                   ~Blocked(root, x)
        /\ stack = <<>> =>
               \A d \in ExpectedRepos(root) :
                   (\E x \in fsDirs : /\ IsProperAncestor(root, x)
                                      /\ Parent(x) = Parent(d)
                                      /\ x # d
                                      /\ Blocked(root, x))
                       => d \in FoundSet

\* A hidden repository, a repository beneath an excluded directory, and a
\* sibling that is reported
C7_Witness ==
    /\ ScanReturned
    /\ cfgExclude = {<<"*", "-", "b">>}
    /\ IsRepository(<<Name_p, Name_hidden>>)
    /\ IsRepository(<<Name_p, Name_xb, Name_r>>)
    /\ FoundSet = {<<Name_p, Name_b>>}

\* The pools that are directories
PoolsFound == {cfgPools[i] : i \in {j \in 1..Len(cfgPools) : cfgPools[j] \in fsDirs}}

\* C8: the list of the scan command is a function of the tree and the
\* configuration alone, whatever the order of enumeration: it is strictly
\* ascending (sorted, no path twice) and holds exactly the repositories the
\* descent rules reach from the pools that exist.
C8_ScanListIsDetermined ==
    (rPc = "done" /\ pool_count > 0) =>
        /\ \A i \in 1..(Len(repos) - 1) : PathLess(repos[i], repos[i + 1])
        /\ ReposSet = UNION {ExpectedRepos(pool) : pool \in PoolsFound}

\* Two overlapping pools that both reach the same repository
C8_Witness ==
    /\ rPc = "done"
    /\ cfgPools = << <<Name_p, Name_a>>, <<Name_p>> >>
    /\ <<Name_p, Name_a, Name_b>> \in ExpectedRepos(<<Name_p>>)
    /\ <<Name_p, Name_a, Name_b>> \in ExpectedRepos(<<Name_p, Name_a>>)
    /\ repos = << <<Name_p, Name_a, Name_b>>, <<Name_p, Name_b>> >>

-----------------------------------------------------------------------------
(* Context reordering: profile.rs IncludeIfRule, reorder_profiles_by_context, *)
(* reorder_profiles_by_rules, promote_default                                 *)

\* str::strip_prefix
strip_prefix(text, part) ==
    IF StartsWith(text, part) THEN Some(SubSeq(text, Len(part) + 1, Len(text)))
    ELSE NoneOpt

\* str::trim_end_matches: the suffix is removed as often as it occurs
RECURSIVE trim_end_matches(_, _)
trim_end_matches(text, part) ==
    IF part # <<>> /\ EndsWith(text, part)
    THEN trim_end_matches(SubSeq(text, 1, Len(text) - Len(part)), part)
    ELSE text

\* str::to_lowercase (ASCII)
UpperCase ==
    <<"A", "B", "C", "D", "E", "F", "G", "H", "I", "J", "K", "L", "M",
      "N", "O", "P", "Q", "R", "S", "T", "U", "V", "W", "X", "Y", "Z">>
to_lowercase(text) ==
    [i \in 1..Len(text) |->
        IF \E k \in 1..Len(UpperCase) : UpperCase[k] = text[i]
        THEN LowerCase[CHOOSE k \in 1..Len(UpperCase) : UpperCase[k] = text[i]]
        ELSE text[i]]

\* dirs::home_dir()
HomeDir == Some(<<"/", "h">>)

\* expand_tilde: a leading "~/" becomes the home directory joined with the
\* rest (PathBuf::join: an absolute rest replaces the base)
expand_tilde(path) ==
    LET rest == strip_prefix(path, <<"~", "/">>)
    IN  IF rest # NoneOpt /\ HomeDir # NoneOpt
        THEN IF StartsWith(rest[1], <<"/">>) THEN rest[1]
             ELSE HomeDir[1] \o <<"/">> \o rest[1]
        ELSE path

\* The files and directories of the file system the calls run against, each
\* with the path it resolves to: /l is a symbolic link to the home directory
\* and /k a symbolic link to the gitconfig file /a.
FsEntries ==
    {[path |-> <<"/", "h">>, real |-> <<"/", "h">>],
     [path |-> <<"/", "h", "/", "r">>, real |-> <<"/", "h", "/", "r">>],
     [path |-> <<"/", "l">>, real |-> <<"/", "h">>],
     [path |-> <<"/", "l", "/", "r">>, real |-> <<"/", "h", "/", "r">>],
     [path |-> <<"/", "a">>, real |-> <<"/", "a">>],
     [path |-> <<"/", "b">>, real |-> <<"/", "b">>],
     [path |-> <<"/", "k">>, real |-> <<"/", "a">>]}

\* The entries by the components of their paths
FsIndex == {[components |-> PathComponents(e.path), real |-> e.real] : e \in FsEntries}

\* Path::canonicalize: the absolute path with every symbolic link resolved,
\* an error when the path does not exist
canonicalize(path) ==
    LET components == PathComponents(path)
        hits == {e \in FsIndex : e.components = components}
    IN  IF hits = {} THEN Err("No such file or directory")
        ELSE Ok((CHOOSE e \in hits : TRUE).real)

\* canonicalize().unwrap_or_else(|_| path.clone())
CanonicalOrSelf(path) ==
    LET c == canonicalize(path)
    IN  IF c.ok THEN c.val ELSE path

ProfileContext(target_path, clone_url) ==
    [target_path |-> target_path, clone_url |-> clone_url]

IncludeIfRule(condition, target_path) ==
    [condition |-> condition, target_path |-> target_path]

\* IncludeIfRule::matches_gitdir
matches_gitdir(pattern, context, case_insensitive) ==
    IF context.target_path = NoneOpt THEN FALSE
    ELSE LET target == CanonicalOrSelf(context.target_path[1])
             pattern_path == expand_tilde(pattern)
             pattern_normalized == CanonicalOrSelf(pattern_path)
             target_cmp == IF case_insensitive THEN to_lowercase(target) ELSE target
             pattern_cmp == IF case_insensitive THEN to_lowercase(pattern_normalized)
                            ELSE pattern_normalized
         IN  IF EndsWith(pattern, <<"/">>) \/ EndsWith(pattern, <<"/", "*", "*">>)
             THEN LET prefix == trim_end_matches(trim_end_matches(pattern_cmp, <<"/">>),
                                                 <<"*", "*">>)
                  IN  StartsWith(target_cmp, prefix)
             ELSE IF ContainsChar(pattern, "*")
             THEN glob_match(pattern_cmp, target_cmp)
             ELSE target_cmp = pattern_cmp

\* matches_url with an absent URL read as the empty URL
matches_url_AbsentIsEmpty(pattern, context) ==
    glob_match(pattern, IF context.clone_url = NoneOpt THEN <<>> ELSE context.clone_url[1])

\* IncludeIfRule::matches_url
matches_url(pattern, context) ==
    IF context.clone_url = NoneOpt THEN FALSE
    ELSE glob_match(pattern, context.clone_url[1])

\* The condition prefixes
GitdirPrefix == <<"g", "i", "t", "d", "i", "r", ":">>
GitdirIPrefix == <<"g", "i", "t", "d", "i", "r", "/", "i", ":">>
HasconfigUrlPrefix == <<"h", "a", "s", "c", "o", "n", "f", "i", "g", ":", "r", "e", "m", "o", "t", "e", ".", "*", ".", "u", "r", "l", ":">>

\* IncludeIfRule::matches
matches(rule, context) ==
    LET gitdir == strip_prefix(rule.condition, GitdirPrefix)
        gitdir_i == strip_prefix(rule.condition, GitdirIPrefix)
        url == strip_prefix(rule.condition, HasconfigUrlPrefix)
    IN  IF gitdir # NoneOpt THEN matches_gitdir(gitdir[1], context, FALSE)
        ELSE IF gitdir_i # NoneOpt THEN matches_gitdir(gitdir_i[1], context, TRUE)
        ELSE IF url # NoneOpt THEN matches_url(url[1], context)
        ELSE FALSE

\* Vec::remove(idx) and Vec::insert(idx, x), 1-based
VecRemove(v, idx) == SubSeq(v, 1, idx - 1) \o SubSeq(v, idx + 1, Len(v))
VecInsert(v, idx, x) == SubSeq(v, 1, idx - 1) \o <<x>> \o SubSeq(v, idx, Len(v))

\* promote_default that marks the profile it moves as the default
promote_default_MarksDefault(profiles, default_name) ==
    IF default_name = NoneOpt THEN profiles
    ELSE LET idx == FirstIndex({i \in 1..Len(profiles) : profiles[i].name = default_name[1]})
         IN  IF idx # 0
             THEN <<[profiles[idx] EXCEPT !.is_default = TRUE]>> \o
                      SubSeq(profiles, 1, idx - 1) \o SubSeq(profiles, idx + 1, Len(profiles))
             ELSE profiles

\* promote_default that swaps the default profile with the first one
promote_default_Swap(profiles, default_name) ==
    IF default_name = NoneOpt THEN profiles
    ELSE LET idx == FirstIndex({i \in 1..Len(profiles) : profiles[i].name = default_name[1]})
         IN  IF idx # 0
             THEN [i \in 1..Len(profiles) |->
                      IF i = 1 THEN profiles[idx]
                      ELSE IF i = idx THEN profiles[1]
                      ELSE profiles[i]]
             ELSE profiles

\* promote_default
promote_default(profiles, default_name) ==
    IF default_name = NoneOpt THEN profiles
    ELSE LET idx == FirstIndex({i \in 1..Len(profiles) : profiles[i].name = default_name[1]})
         IN  IF idx # 0
             THEN VecInsert(VecRemove(profiles, idx), 1, profiles[idx])
             ELSE profiles

\* The closure of reorder_profiles_by_rules that decides whether a profile
\* is one of the matching ones
SourceMatches(profile, matching_sources) ==
    LET source_canonical == CanonicalOrSelf(profile.source)
    IN  \E rule_target \in matching_sources :
            PathEq(source_canonical, CanonicalOrSelf(rule_target))

\* PartitionLoop that puts every matching profile in front of the ones
\* found before it
RECURSIVE PartitionLoop_Unstable(_, _, _, _, _)
PartitionLoop_Unstable(profiles, matching_sources, i, matching, non_matching) ==
    IF i > Len(profiles) THEN matching \o non_matching
    ELSE IF SourceMatches(profiles[i], matching_sources)
    THEN PartitionLoop_Unstable(profiles, matching_sources, i + 1,
                                <<profiles[i]>> \o matching, non_matching)
    ELSE PartitionLoop_Unstable(profiles, matching_sources, i + 1,
                                matching, Append(non_matching, profiles[i]))

\* The loop `for profile in profiles` of reorder_profiles_by_rules from
\* profile i on, and matching.extend(non_matching) after it
RECURSIVE PartitionLoop(_, _, _, _, _)
PartitionLoop(profiles, matching_sources, i, matching, non_matching) ==
    IF i > Len(profiles) THEN matching \o non_matching
    ELSE IF SourceMatches(profiles[i], matching_sources)
    THEN PartitionLoop(profiles, matching_sources, i + 1,
                       Append(matching, profiles[i]), non_matching)
    ELSE PartitionLoop(profiles, matching_sources, i + 1,
                       matching, Append(non_matching, profiles[i]))

\* reorder_profiles_by_rules
reorder_profiles_by_rules(profiles, context, rules, default_profile) ==
    LET matching_sources ==
            {rules[i].target_path : i \in {j \in 1..Len(rules) : matches(rules[j], context)}}
    IN  IF rules # <<>> /\ matching_sources # {}
        THEN PartitionLoop(profiles, matching_sources, 1, <<>>, <<>>)
        ELSE promote_default(profiles, default_profile)

\* reorder_profiles_by_context; rules is what parse_include_if_rules() returns
reorder_profiles_by_context(profiles, context, rules, default_profile) ==
    IF context.target_path # NoneOpt \/ context.clone_url # NoneOpt
    THEN reorder_profiles_by_rules(profiles, context, rules, default_profile)
    ELSE promote_default(profiles, default_profile)

\* Bounds of the reordering specification: the lengths of the catalog and of
\* the rule list
MaxReorderProfiles == 3
MaxRules == 2

\* The catalog: two profiles named u, one of them read from the symbolic
\* link /k, and a profile whose file /n is gone
ReorderProfileSet ==
    {Profile(<<"u">>, <<"/", "a">>, FALSE),
     Profile(<<"v">>, <<"/", "b">>, TRUE),
     Profile(<<"u">>, <<"/", "k">>, FALSE),
     Profile(<<"w">>, <<"/", "n">>, FALSE)}

\* discover_profiles lists no source twice
DistinctSources(profiles) ==
    \A i, j \in 1..Len(profiles) : profiles[i].source = profiles[j].source => i = j

ReorderContexts ==
    {ProfileContext(NoneOpt, NoneOpt),
     ProfileContext(Some(<<"/", "l", "/", "r">>), NoneOpt),
     ProfileContext(Some(<<"/", "e">>), NoneOpt),
     ProfileContext(NoneOpt, Some(<<"g", "/", "o">>))}

ReorderRuleSet ==
    {IncludeIfRule(GitdirPrefix \o <<"~", "/">>, <<"/", "a">>),
     IncludeIfRule(GitdirIPrefix \o <<"/", "H", "/", "*", "*">>, <<"/", "b">>),
     IncludeIfRule(GitdirPrefix \o <<"/", "h", "/", "*">>, <<"/", "k">>),
     IncludeIfRule(GitdirPrefix \o <<"/", "x", "/">>, <<"/", "b">>),
     IncludeIfRule(HasconfigUrlPrefix \o <<"g", "*">>, <<"/", "n">>),
     IncludeIfRule(<<"o", "n", "b", "r", "a", "n", "c", "h", ":", "m">>, <<"/", "a">>)}

ReorderDefaults == {NoneOpt, Some(<<"u">>), Some(<<"z">>)}

InitReorder ==
    /\ oProfiles \in {c \in SeqsUpTo(ReorderProfileSet, MaxReorderProfiles) : DistinctSources(c)}
    /\ oContext \in ReorderContexts
    /\ oRules \in SeqsUpTo(ReorderRuleSet, MaxRules)
    /\ oDefault \in ReorderDefaults
    /\ oOp = None
    /\ oPc = "call"
    /\ oResult = <<>>
    /\ ReorderOthersIdle

\* resolve_profile_with_context calls reorder_profiles_by_context
ReorderByContext ==
    /\ oPc = "call"
    /\ oOp' = "reorder_profiles_by_context"
    /\ oResult' = reorder_profiles_by_context(oProfiles, oContext, oRules, oDefault)
    /\ oPc' = "done"
    /\ UNCHANGED <<oProfiles, oContext, oRules, oDefault>>
    /\ ReorderFrame

\* A call of reorder_profiles_by_rules with rules of the caller's
ReorderByRules ==
    /\ oPc = "call"
    /\ oOp' = "reorder_profiles_by_rules"
    /\ oResult' = reorder_profiles_by_rules(oProfiles, oContext, oRules, oDefault)
    /\ oPc' = "done"
    /\ UNCHANGED <<oProfiles, oContext, oRules, oDefault>>
    /\ ReorderFrame

\* A call of promote_default
PromoteDefault ==
    /\ oPc = "call"
    /\ oOp' = "promote_default"
    /\ oResult' = promote_default(oProfiles, oDefault)
    /\ oPc' = "done"
    /\ UNCHANGED <<oProfiles, oContext, oRules, oDefault>>
    /\ ReorderFrame

NextReorder == ReorderByContext \/ ReorderByRules \/ PromoteDefault

SpecReorder == InitReorder /\ [][NextReorder]_vars

-----------------------------------------------------------------------------
(* The reordering claims: C9 and C10 *)

\* The rules that match the context
MatchingRules == {i \in 1..Len(oRules) : matches(oRules[i], oContext)}

\* A call that went through reorder_profiles_by_rules has returned
RulesConsulted ==
    /\ oPc = "done"
    /\ \/ oOp = "reorder_profiles_by_rules"
       \/ /\ oOp = "reorder_profiles_by_context"
          /\ (oContext.target_path # NoneOpt \/ oContext.clone_url # NoneOpt)

\* The profiles that satisfy the test, then the others, each in input order
StablePartition(catalog, chosen) ==
    LET In(p) == p \in chosen
        Out(p) == p \notin chosen
    IN  SelectSeq(catalog, In) \o SelectSeq(catalog, Out)

\* The profiles whose source, as it stands, equals the target_path of a
\* matching rule
SourceIsTarget ==
    {p \in ReorderProfileSet :
        \E i \in MatchingRules : PathEq(p.source, oRules[i].target_path)}

\* The file a path leads to: the path with its symbolic links resolved, the
\* path itself when nothing exists there
Resolved(path) ==
    LET at == {e \in FsIndex : e.components = PathComponents(path)}
    IN  IF at = {} THEN path ELSE (CHOOSE e \in at : TRUE).real

\* The profiles whose canonicalized source equals the canonicalized
\* target_path of a matching rule
SourceResolvesToTarget ==
    {p \in ReorderProfileSet :
        \E i \in MatchingRules :
            PathEq(Resolved(p.source), Resolved(oRules[i].target_path))}

\* C9 as stated: when at least one rule matches the context, the result of
\* reorder_profiles_by_rules is the stable partition of the catalog: first
\* every profile whose source equals the target_path of some matching rule,
\* in input order, then every other profile, in input order.
C9_PartitionBySourceEqualsTarget ==
    (RulesConsulted /\ MatchingRules # {})
        => oResult = StablePartition(oProfiles, SourceIsTarget)

\* C9 amended: when at least one rule matches the context, the result of
\* reorder_profiles_by_rules is the stable partition of the catalog: first
\* every profile whose canonicalized source equals the canonicalized
\* target_path of some matching rule (a path that cannot be canonicalized is
\* compared as it stands), in input order, then every other profile, in
\* input order.
C9_PartitionByCanonicalSource ==
    (RulesConsulted /\ MatchingRules # {})
        => oResult = StablePartition(oProfiles, SourceResolvesToTarget)

\* Two profiles move in front of a third in their input order, one of them
\* read from a symbolic link to the target of the matching rule
C9_Witness ==
    /\ RulesConsulted
    /\ MatchingRules # {}
    /\ Len(oProfiles) = 3
    /\ oProfiles[1] \notin SourceResolvesToTarget
    /\ oProfiles[2] \in SourceResolvesToTarget \ SourceIsTarget
    /\ oProfiles[3] \in SourceIsTarget
    /\ oResult = <<oProfiles[2], oProfiles[3], oProfiles[1]>>

\* The context carries neither a target path nor a clone URL
ContextBare == oContext.target_path = NoneOpt /\ oContext.clone_url = NoneOpt

\* The calls C10 speaks of: no rule matches, there are no rules, or the
\* context is bare; and the calls of promote_default itself
FallsBackToDefault ==
    /\ oPc = "done"
    /\ \/ oOp = "promote_default"
       \/ oRules = <<>>
       \/ MatchingRules = {}
       \/ oOp = "reorder_profiles_by_context" /\ ContextBare

\* The positions of the profiles that bear the configured default's name
DefaultNamed ==
    IF oDefault = NoneOpt THEN {}
    ELSE {i \in 1..Len(oProfiles) : oProfiles[i].name = oDefault[1]}

\* C10: when no rule matches the context, when there are no rules, or when
\* the context carries neither a target path nor a clone URL, reordering
\* moves the first profile whose name equals the configured default to index
\* 0 and keeps every other profile in its input relative order; when no
\* default is configured or no profile bears that name, the list is returned
\* unchanged.
C10_DefaultPromotedOthersInOrder ==
    FallsBackToDefault =>
        IF DefaultNamed = {} THEN oResult = oProfiles
        ELSE LET k == CHOOSE i \in DefaultNamed : \A j \in DefaultNamed : i <= j
             IN  /\ Len(oResult) = Len(oProfiles)
                 /\ oResult[1] = oProfiles[k]
                 /\ \A j \in 2..Len(oProfiles) :
                        oResult[j] = oProfiles[IF j - 1 < k THEN j - 1 ELSE j]

\* Rules that do not match the context, and the default's profile last of
\* three
C10_Witness ==
    /\ oPc = "done"
    /\ oOp = "reorder_profiles_by_rules"
    /\ oRules # <<>>
    /\ ~ContextBare
    /\ MatchingRules = {}
    /\ Len(oProfiles) = 3
    /\ DefaultNamed = {3}
    /\ oResult = <<oProfiles[3], oProfiles[1], oProfiles[2]>>

-----------------------------------------------------------------------------
(* C11 *)

\* How often a profile, all its fields taken together, stands in a list
Occurrences(list, p) == Cardinality({i \in 1..Len(list) : list[i] = p})

\* C11: reordering only permutes the catalog: whatever the catalog, the
\* context, the rules and the default name, the result of
\* reorder_profiles_by_context, reorder_profiles_by_rules and promote_default
\* has the length of the input and holds every input profile exactly as
\* often as the input does, with all its fields (is_default included)
\* unchanged.
C11_ReorderingOnlyPermutes ==
    oPc = "done" =>
        /\ Len(oResult) = Len(oProfiles)
        /\ \A i \in 1..Len(oProfiles) :
               Occurrences(oResult, oProfiles[i]) = Occurrences(oProfiles, oProfiles[i])
        /\ \A i \in 1..Len(oResult) :
               Occurrences(oProfiles, oResult[i]) = Occurrences(oResult, oResult[i])

\* A catalog of three with a profile marked is_default that comes back in
\* another order
C11_Witness ==
    /\ oPc = "done"
    /\ Len(oProfiles) = 3
    /\ \E i \in 1..3 : oProfiles[i].is_default
    /\ oResult # oProfiles
    /\ oResult[1] = oProfiles[3]

-----------------------------------------------------------------------------
(* The lookup claims: C12 and C13 *)

\* The positions of the profiles whose name or source path is the query
ExactPositions ==
    {i \in 1..Len(fProfiles) :
        fProfiles[i].name = fName \/ PathEq(fProfiles[i].source, fName)}

\* The positions of the profiles named ".q" or ".gitconfig-q"
FallbackPositions ==
    {i \in 1..Len(fProfiles) :
        fProfiles[i].name \in {<<".">> \o fName, GitconfigDash \o fName}}

RECURSIVE OccurInOrder(_, _)
OccurInOrder(text, strs) ==
    IF strs = <<>> THEN TRUE
    ELSE LET at == StrFind(text, Head(strs))
         IN  /\ at # -1
             /\ OccurInOrder(SubSeq(text, at + Len(Head(strs)) + 1, Len(text)), Tail(strs))

\* C13: find_profile_by_name returns an error if and only if no profile has
\* name q, source path q, name ".q" or name ".gitconfig-q"; the message of
\* the error contains q and the names of all profiles of the catalog, in
\* catalog order.
C13_ErrorIffNoFormMatches ==
    fPc = "done" =>
        /\ ~fResult.ok <=> (ExactPositions = {} /\ FallbackPositions = {})
        /\ ~fResult.ok =>
               /\ StrFind(fResult.message, fName) # -1
               /\ OccurInOrder(fResult.message,
                               [i \in 1..Len(fProfiles) |-> fProfiles[i].name])

\* A catalog of three profiles none of which answers the query
C13_Witness ==
    /\ fPc = "done"
    /\ Len(fProfiles) = 3
    /\ fProfiles[1].name # fProfiles[2].name
    /\ ~fResult.ok
    /\ fResult.query = fName

-----------------------------------------------------------------------------
(* The clone, init and apply commands: commands/clone.rs, commands/init.rs,  *)
(* commands/apply.rs, profile.rs apply_profile, git.rs set_config            *)

\* The keys apply_profile writes, in the order of its statements
ConfigKeys ==
    <<"user.name", "user.email", "user.signingkey", "gpg.format", "commit.gpgsign",
      "tag.gpgsign">>

\* A key that has no value in the repository's configuration
Unset == "unset"

\* if gpg_sign { "true" } else { "false" }
BoolStr(b) == IF b THEN "true" ELSE "false"

\* A Profile with the fields apply_profile reads
IdentityProfile(name, user_name, user_email, signing_key, gpg_format, gpg_sign, tag_gpg_sign) ==
    [name |-> name, user_name |-> user_name, user_email |-> user_email,
     signing_key |-> signing_key, gpg_format |-> gpg_format,
     gpg_sign |-> gpg_sign, tag_gpg_sign |-> tag_gpg_sign]

\* The value apply_profile passes to set_config for the k-th key, NoneOpt
\* when the `if let Some(..)` of that key does not match
FieldValue(profile, k) ==
    CASE k = 1 -> profile.user_name
      [] k = 2 -> profile.user_email
      [] k = 3 -> profile.signing_key
      [] k = 4 -> profile.gpg_format
      [] k = 5 -> IF profile.gpg_sign = NoneOpt THEN NoneOpt
                  ELSE Some(BoolStr(profile.gpg_sign[1]))
      [] k = 6 -> IF profile.tag_gpg_sign = NoneOpt THEN NoneOpt
                  ELSE Some(BoolStr(profile.tag_gpg_sign[1]))

\* state::load() run by one invocation alone: its result and the file it
\* leaves
load(file, data_dir) ==
    IF ~data_dir \/ ~file.exists THEN [result |-> Ok(DefaultState), file |-> file]
    ELSE IF ~file.readable
    THEN [result |-> Err("Failed to read yarm state file"), file |-> file]
    ELSE IF LoadMatch(file.bytes) # NoneOpt
    THEN [result |-> Ok(LoadMatch(file.bytes)[1]), file |-> file]
    ELSE [result |-> Ok(DefaultState), file |-> AbsentFile]

\* Path::starts_with
PathStartsWith(path, base) == path = base \/ IsProperAncestor(base, path)

\* Bound of the command specification: the repositories of the pool
MaxCmdRepos == 2

\* The repositories of the pool, the pool, and a repository of another pool
CmdRepo(i) == <<Name_p, <<LowerCase[i]>> >>
CmdRepos == {CmdRepo(i) : i \in 1..MaxCmdRepos}
CmdPool == <<Name_p>>
OtherRepo == <<Name_q, Name_a>>

\* The target of clone, init and apply: the path argument, "." for apply
CmdTarget == CmdRepo(1)

\* The configuration of a repository git has just created, and one with a
\* value for every key
FreshConfig == [k \in 1..Len(ConfigKeys) |-> Unset]
OldConfig == [k \in 1..Len(ConfigKeys) |-> "old"]

\* The profiles resolution may come back with
CmdProfiles ==
    {IdentityProfile("full", Some("n"), Some("e"), Some("k"), Some("ssh"),
                     Some(TRUE), Some(FALSE)),
     IdentityProfile("id", Some("n"), Some("e"), NoneOpt, NoneOpt, NoneOpt, NoneOpt),
     IdentityProfile("sign", NoneOpt, NoneOpt, Some("k"), NoneOpt, Some(FALSE), NoneOpt),
     IdentityProfile("none", NoneOpt, NoneOpt, NoneOpt, NoneOpt, NoneOpt, NoneOpt)}

CmdNames == {"clone", "init", "apply", "apply_pool"}

\* The state files the pool flow may meet: none, one of another version, and
\* the inventory of a scan
StaleInventory ==
    Written(AbsentFile,
            Encode([version |-> STATE_VERSION - 1,
                    state |-> [repositories |-> <<CmdRepo(1)>>, last_scan |-> NoneOpt]]))
CmdInventory ==
    Written(AbsentFile,
            SaveBytes([repositories |-> [i \in 1..MaxCmdRepos |-> CmdRepo(i)] \o <<OtherRepo>>,
                       last_scan |-> Some(1)]))

InitCmd ==
    /\ cCmd \in CmdNames
    /\ cNamed \in BOOLEAN
    /\ \E status \in [CmdRepos -> {"missing", "dir", "fresh", "old"}] :
           /\ tDirs = {r \in CmdRepos : status[r] # "missing"}
           /\ tGit = {r \in CmdRepos : status[r] \in {"fresh", "old"}}
           /\ tConfig = [r \in CmdRepos |-> IF status[r] = "old" THEN OldConfig ELSE FreshConfig]
    /\ tDirs0 = tDirs /\ tGit0 = tGit /\ tConfig0 = tConfig
    /\ sFile \in IF cCmd = "apply_pool" THEN {AbsentFile, StaleInventory, CmdInventory}
                 ELSE {AbsentFile}
    /\ sFile0 = sFile /\ sLast = NoneOpt /\ sDataDir = TRUE
    /\ sOp = <<>> /\ sPc = <<>> /\ sBytes = <<>> /\ sResult = <<>>
    /\ cPc = "start" /\ cResult = None /\ cResolution = None /\ cSelected = NoneOpt
    /\ cTargets = <<>> /\ cIdx = 0 /\ cKey = 0 /\ cBefore = <<>> /\ cLog = <<>>
    /\ CmdOthersIdle

\* The command returns
CmdReturn(result) == cResult' = result /\ cPc' = "done"

\* The command goes on to resolve_profile_with_context with these targets
CmdGoResolve(targets) == cTargets' = targets /\ cPc' = "resolve" /\ UNCHANGED cResult

\* run of clone, init and apply up to the call of resolve_profile_with_context:
\* git::ensure_available and the tests of the target; run_pool loads the
\* inventory and keeps the repositories of the pool
CmdStart ==
    /\ cPc = "start"
    /\ \E git_ok \in BOOLEAN :
         IF ~git_ok
         THEN CmdReturn(Err("Git is not working properly")) /\ UNCHANGED <<cTargets, sFile>>
         ELSE IF cCmd = "clone"
         THEN /\ IF CmdTarget \in tDirs
                 THEN CmdReturn(Err("Target directory already exists")) /\ UNCHANGED cTargets
                 ELSE CmdGoResolve(<<CmdTarget>>)
              /\ UNCHANGED sFile
         ELSE IF cCmd = "init"
         THEN /\ IF CmdTarget \in tGit
                 THEN CmdReturn(Err("Already a git repository")) /\ UNCHANGED cTargets
                 ELSE IF CmdTarget \notin tDirs
                 THEN CmdReturn(Err("Directory does not exist")) /\ UNCHANGED cTargets
                 ELSE CmdGoResolve(<<CmdTarget>>)
              /\ UNCHANGED sFile
         ELSE IF cCmd = "apply"
         THEN /\ IF CmdTarget \notin tGit
                 THEN CmdReturn(Err("Not a git repository")) /\ UNCHANGED cTargets
                 ELSE CmdGoResolve(<<CmdTarget>>)
              /\ UNCHANGED sFile
         ELSE LET loaded == load(sFile, sDataDir)
                  InPool(r) == PathStartsWith(r, CmdPool)
              IN  /\ sFile' = loaded.file
                  /\ IF ~loaded.result.ok
                     THEN CmdReturn(loaded.result) /\ UNCHANGED cTargets
                     ELSE IF SelectSeq(loaded.result.val.repositories, InPool) = <<>>
                     THEN CmdReturn(Ok(<<>>)) /\ UNCHANGED cTargets
                     ELSE CmdGoResolve(SelectSeq(loaded.result.val.repositories, InPool))
    /\ UNCHANGED <<cCmd, cNamed, cResolution, cSelected, cIdx, cKey, cBefore, cLog>>
    /\ UNCHANGED <<targetVars, sFile0, sLast, sDataDir, sOp, sPc, sBytes, sResult>>
    /\ CmdFrame

\* What resolve_profile_with_context may come back with: an error (of the
\* configuration, of discovery, of the lookup by name or of the prompt), a
\* profile, and, when the selector was shown, a cancellation
Resolutions ==
    {[kind |-> "error"]}
        \cup {[kind |-> "selected", profile |-> profile] : profile \in CmdProfiles}
        \cup (IF cNamed THEN {} ELSE {[kind |-> "cancelled"]})

\* CmdResolve where a cancellation of the selector comes back as an error
CmdResolve_CancelIsError ==
    /\ cPc = "resolve"
    /\ \E outcome \in Resolutions :
         /\ cResolution' = outcome.kind
         /\ IF outcome.kind \in {"error", "cancelled"}
            THEN /\ CmdReturn(Err("Profile selection failed"))
                 /\ UNCHANGED <<cSelected, cIdx>>
            ELSE /\ cSelected' = Some(outcome.profile)
                 /\ cIdx' = 1
                 /\ cPc' = CASE cCmd = "clone" -> "clone_repo"
                             [] cCmd = "init" -> "init_repo"
                             [] OTHER -> "apply"
                 /\ UNCHANGED cResult
    /\ UNCHANGED <<cCmd, cNamed, cTargets, cKey, cBefore, cLog, targetVars, storeVars>>
    /\ CmdFrame

\* resolve_profile_with_context and the let-else on its result
CmdResolve ==
    /\ cPc = "resolve"
    /\ \E outcome \in Resolutions :
         /\ cResolution' = outcome.kind
         /\ IF outcome.kind = "error"
            THEN /\ CmdReturn(Err("Profile resolution failed"))
                 /\ UNCHANGED <<cSelected, cIdx>>
            ELSE IF outcome.kind = "cancelled"
            THEN /\ CmdReturn(Ok(<<>>))
                 /\ UNCHANGED <<cSelected, cIdx>>
            ELSE /\ cSelected' = Some(outcome.profile)
                 /\ cIdx' = 1
                 /\ cPc' = CASE cCmd = "clone" -> "clone_repo"
                             [] cCmd = "init" -> "init_repo"
                             [] OTHER -> "apply"
                 /\ UNCHANGED cResult
    /\ UNCHANGED <<cCmd, cNamed, cTargets, cKey, cBefore, cLog, targetVars, storeVars>>
    /\ CmdFrame

\* clone_repo: git clone creates the target with its .git, or fails
CloneRepo ==
    /\ cPc = "clone_repo"
    /\ cLog' = Append(cLog, [cmd |-> "git clone", repo |-> cTargets[1]])
    /\ \/ /\ tDirs' = tDirs \cup {cTargets[1]}
          /\ tGit' = tGit \cup {cTargets[1]}
          /\ tConfig' = [tConfig EXCEPT ![cTargets[1]] = FreshConfig]
          /\ cPc' = "apply"
          /\ UNCHANGED cResult
       \/ /\ CmdReturn(Err("Clone failed"))
          /\ UNCHANGED <<tDirs, tGit, tConfig>>
    /\ UNCHANGED <<cCmd, cNamed, cResolution, cSelected, cTargets, cIdx, cKey, cBefore>>
    /\ UNCHANGED <<tDirs0, tGit0, tConfig0, storeVars>>
    /\ CmdFrame

\* init_repo: git init creates .git in the target, or fails
InitRepo ==
    /\ cPc = "init_repo"
    /\ cLog' = Append(cLog, [cmd |-> "git init", repo |-> cTargets[1]])
    /\ \/ /\ tGit' = tGit \cup {cTargets[1]}
          /\ tConfig' = [tConfig EXCEPT ![cTargets[1]] = FreshConfig]
          /\ cPc' = "apply"
          /\ UNCHANGED cResult
       \/ /\ CmdReturn(Err("Init failed"))
          /\ UNCHANGED <<tGit, tConfig>>
    /\ UNCHANGED <<cCmd, cNamed, cResolution, cSelected, cTargets, cIdx, cKey, cBefore>>
    /\ UNCHANGED <<tDirs, tDirs0, tGit0, tConfig0, storeVars>>
    /\ CmdFrame

\* apply_profile: the test of repo_path.join(".git")
ApplyCheck ==
    /\ cPc = "apply"
    /\ cKey = 0
    /\ IF cTargets[cIdx] \notin tGit
       THEN CmdReturn(Err("Not a git repository")) /\ UNCHANGED <<cKey, cBefore>>
       ELSE /\ cKey' = 1
            /\ cBefore' = tConfig[cTargets[cIdx]]
            /\ UNCHANGED <<cPc, cResult>>
    /\ UNCHANGED <<cCmd, cNamed, cResolution, cSelected, cTargets, cIdx, cLog>>
    /\ UNCHANGED <<targetVars, storeVars>>
    /\ CmdFrame

\* ApplyKey that clears the key of a field that is not set
ApplyKey_ClearsUnset ==
    /\ cPc = "apply"
    /\ cKey \in 1..Len(ConfigKeys)
    /\ LET repo == cTargets[cIdx]
           value == FieldValue(cSelected[1], cKey)
       IN  IF value = NoneOpt
           THEN /\ cKey' = cKey + 1
                /\ tConfig' = [tConfig EXCEPT ![repo][cKey] = Unset]
                /\ UNCHANGED <<cPc, cResult, cLog>>
           ELSE \/ /\ tConfig' = [tConfig EXCEPT ![repo][cKey] = value[1]]
                   /\ cLog' = Append(cLog, [cmd |-> "git config", repo |-> repo,
                                            key |-> cKey, ok |-> TRUE])
                   /\ cKey' = cKey + 1
                   /\ UNCHANGED <<cPc, cResult>>
                \/ /\ cLog' = Append(cLog, [cmd |-> "git config", repo |-> repo,
                                            key |-> cKey, ok |-> FALSE])
                   /\ CmdReturn(Err("Failed to set git config"))
                   /\ UNCHANGED <<cKey, tConfig>>
    /\ UNCHANGED <<cCmd, cNamed, cResolution, cSelected, cTargets, cIdx, cBefore>>
    /\ UNCHANGED <<tDirs, tGit, tDirs0, tGit0, tConfig0, storeVars>>
    /\ CmdFrame

\* ApplyKey that goes on to the next key after a write that failed
ApplyKey_GoesOnAfterFailure ==
    /\ cPc = "apply"
    /\ cKey \in 1..Len(ConfigKeys)
    /\ LET repo == cTargets[cIdx]
           value == FieldValue(cSelected[1], cKey)
       IN  IF value = NoneOpt
           THEN /\ cKey' = cKey + 1
                /\ UNCHANGED <<cPc, cResult, cLog, tConfig>>
           ELSE \/ /\ tConfig' = [tConfig EXCEPT ![repo][cKey] = value[1]]
                   /\ cLog' = Append(cLog, [cmd |-> "git config", repo |-> repo,
                                            key |-> cKey, ok |-> TRUE])
                   /\ cKey' = cKey + 1
                   /\ UNCHANGED <<cPc, cResult>>
                \/ /\ cLog' = Append(cLog, [cmd |-> "git config", repo |-> repo,
                                            key |-> cKey, ok |-> FALSE])
                   /\ cKey' = cKey + 1
                   /\ UNCHANGED <<cPc, cResult, tConfig>>
    /\ UNCHANGED <<cCmd, cNamed, cResolution, cSelected, cTargets, cIdx, cBefore>>
    /\ UNCHANGED <<tDirs, tGit, tDirs0, tGit0, tConfig0, storeVars>>
    /\ CmdFrame

\* apply_profile: the statement of one key.  When the field is set,
\* set_config runs `git config --local key value`: the key takes the value,
\* or git fails, the key stays as it was and the `?` returns the error
ApplyKey ==
    /\ cPc = "apply"
    /\ cKey \in 1..Len(ConfigKeys)
    /\ LET repo == cTargets[cIdx]
           value == FieldValue(cSelected[1], cKey)
       IN  IF value = NoneOpt
           THEN /\ cKey' = cKey + 1
                /\ UNCHANGED <<cPc, cResult, cLog, tConfig>>
           ELSE \/ /\ tConfig' = [tConfig EXCEPT ![repo][cKey] = value[1]]
                   /\ cLog' = Append(cLog, [cmd |-> "git config", repo |-> repo,
                                            key |-> cKey, ok |-> TRUE])
                   /\ cKey' = cKey + 1
                   /\ UNCHANGED <<cPc, cResult>>
                \/ /\ cLog' = Append(cLog, [cmd |-> "git config", repo |-> repo,
                                            key |-> cKey, ok |-> FALSE])
                   /\ CmdReturn(Err("Failed to set git config"))
                   /\ UNCHANGED <<cKey, tConfig>>
    /\ UNCHANGED <<cCmd, cNamed, cResolution, cSelected, cTargets, cIdx, cBefore>>
    /\ UNCHANGED <<tDirs, tGit, tDirs0, tGit0, tConfig0, storeVars>>
    /\ CmdFrame

\* apply_profile returns Ok(()): the command ends, or run_pool takes the
\* next repository
ApplyReturn ==
    /\ cPc = "apply"
    /\ cKey = Len(ConfigKeys) + 1
    /\ IF cIdx < Len(cTargets)
       THEN /\ cIdx' = cIdx + 1
            /\ cKey' = 0
            /\ UNCHANGED <<cPc, cResult>>
       ELSE /\ CmdReturn(Ok(<<>>))
            /\ UNCHANGED <<cIdx, cKey>>
    /\ UNCHANGED <<cCmd, cNamed, cResolution, cSelected, cTargets, cBefore, cLog>>
    /\ UNCHANGED <<targetVars, storeVars>>
    /\ CmdFrame

NextCmd ==
    CmdStart \/ CmdResolve \/ CloneRepo \/ InitRepo \/ ApplyCheck \/ ApplyKey \/ ApplyReturn

SpecCmd == InitCmd /\ [][NextCmd]_vars

-----------------------------------------------------------------------------
(* The command claims: C14 to C16 *)

\* C14: in the clone, init and apply flows, when the selector reports a
\* cancellation, resolution yields no profile and the command returns
\* success having started no git clone, run no git init and written no
\* config key, the target being as it was; and no git command is run on the
\* target before resolution has come back with a profile.
C14_CancelBeforeAnySideEffect ==
    /\ cResolution = "cancelled" =>
           /\ cPc = "done"
           /\ cResult = Ok(<<>>)
           /\ cSelected = NoneOpt
           /\ cLog = <<>>
           /\ tDirs = tDirs0 /\ tGit = tGit0 /\ tConfig = tConfig0
    /\ cLog # <<>> => (cResolution = "selected" /\ cSelected # NoneOpt)

\* A clone whose selector was cancelled
C14_Witness ==
    /\ cCmd = "clone"
    /\ cResolution = "cancelled"
    /\ cPc = "done"
    /\ CmdTarget \notin tDirs

\* The value a profile holds for a key, Unset when the field is not set
ProfileKeyValue(profile, key) ==
    LET text(field) == IF field = NoneOpt THEN Unset ELSE field[1]
        flag(field) == IF field = NoneOpt THEN Unset
                       ELSE IF field[1] THEN "true" ELSE "false"
    IN  CASE key = "user.name" -> text(profile.user_name)
          [] key = "user.email" -> text(profile.user_email)
          [] key = "user.signingkey" -> text(profile.signing_key)
          [] key = "gpg.format" -> text(profile.gpg_format)
          [] key = "commit.gpgsign" -> flag(profile.gpg_sign)
          [] key = "tag.gpgsign" -> flag(profile.tag_gpg_sign)

\* The positions of the log at which git config ran on a repository
ConfigRuns(repo) ==
    {i \in 1..Len(cLog) : cLog[i].cmd = "git config" /\ cLog[i].repo = repo}

\* apply_profile has returned Ok for the repository at hand
ApplyReturnedOk == cPc = "apply" /\ cKey = Len(ConfigKeys) + 1

\* apply_profile has returned its own "Not a git repository" error
ApplyRefused ==
    /\ cPc = "done"
    /\ cSelected # NoneOpt
    /\ cKey = 0
    /\ cResult = Err("Not a git repository")

\* C15: apply_profile writes exactly the keys whose profile field is set: when
\* it returns Ok, each such key holds the profile's value and was written
\* once, a key whose field is unset was not touched and holds the value it
\* had before; when the repository has no .git entry the call fails and no
\* key of it has been written.
C15_WritesExactlyTheSetFields ==
    /\ ApplyReturnedOk =>
           LET repo == cTargets[cIdx]
               profile == cSelected[1]
           IN  /\ \A k \in 1..Len(ConfigKeys) :
                      IF ProfileKeyValue(profile, ConfigKeys[k]) # Unset
                      THEN /\ tConfig[repo][k] = ProfileKeyValue(profile, ConfigKeys[k])
                           /\ Cardinality({i \in ConfigRuns(repo) : cLog[i].key = k}) = 1
                      ELSE /\ tConfig[repo][k] = cBefore[k]
                           /\ {i \in ConfigRuns(repo) : cLog[i].key = k} = {}
    /\ ApplyRefused =>
           /\ cTargets[cIdx] \notin tGit
           /\ ConfigRuns(cTargets[cIdx]) = {}
           /\ tConfig[cTargets[cIdx]] = tConfig0[cTargets[cIdx]]

\* The pool flow: the first repository, which had a value for every key,
\* took the two fields the profile sets and kept the rest, and the second
\* one, which has lost its .git, was refused
C15_Witness ==
    /\ ApplyRefused
    /\ cCmd = "apply_pool"
    /\ cIdx = 2
    /\ cSelected[1].name = "sign"
    /\ tConfig0[cTargets[1]] = OldConfig
    /\ tConfig[cTargets[1]] = <<"old", "old", "k", "old", "false", "old">>

\* A write of git config has failed
WriteFailed == cLog # <<>> /\ cLog[Len(cLog)].cmd = "git config" /\ ~cLog[Len(cLog)].ok

\* C16: apply_profile writes the keys in the order user.name, user.email,
\* user.signingkey, gpg.format, commit.gpgsign, tag.gpgsign and stops at the
\* first failing write: it returns an error, every key before the failing
\* one whose field is set holds its new value, and no key after it is
\* written.
C16_FixedOrderStopsAtFirstFailure ==
    /\ \A i, j \in 1..Len(cLog) :
           (/\ i < j
            /\ cLog[i].cmd = "git config"
            /\ cLog[j].cmd = "git config"
            /\ cLog[i].repo = cLog[j].repo)
               => /\ cLog[i].key < cLog[j].key
                  /\ cLog[i].ok
    /\ WriteFailed =>
           LET repo == cLog[Len(cLog)].repo
               failed == cLog[Len(cLog)].key
               profile == cSelected[1]
           IN  /\ cPc = "done"
               /\ ~cResult.ok
               /\ \A k \in 1..(failed - 1) :
                      ProfileKeyValue(profile, ConfigKeys[k]) # Unset
                          => tConfig[repo][k] = ProfileKeyValue(profile, ConfigKeys[k])
               /\ \A k \in (failed + 1)..Len(ConfigKeys) :
                      /\ tConfig[repo][k] = cBefore[k]
                      /\ {i \in ConfigRuns(repo) : cLog[i].key = k} = {}

\* The write of user.signingkey failed: user.name and user.email hold the
\* new values and the three keys after it the old ones
C16_Witness ==
    /\ WriteFailed
    /\ cPc = "done"
    /\ cLog[Len(cLog)].key = 3
    /\ cSelected[1].name = "full"
    /\ tConfig[cTargets[cIdx]] = <<"n", "e", "old", "old", "old", "old">>

-----------------------------------------------------------------------------
(* The store claims: C17 to C20 *)

\* Invocation p has written the file
Wrote(p) == sOp[p].kind = "save" /\ sPc[p] = "done" /\ sResult[p].ok

\* Invocation p is the only one that has written the file, the file is still
\* there, and invocation q finished a load() that read the bytes it holds:
\* nothing was written between p's save and q's load
RoundTrip(p, q) ==
    /\ Wrote(p)
    /\ \A r \in Procs \ {p} : ~Wrote(r)
    /\ sFile.exists
    /\ sOp[q].kind = "load"
    /\ sPc[q] = "done"
    /\ sBytes[q] = sFile.bytes

\* C17 as stated: after save(s) succeeded, a load() with no write in between
\* returns the repository paths of s in the same order and a populated
\* last_scan time.
C17_RoundTripPopulatesLastScan ==
    \A p, q \in Procs :
        RoundTrip(p, q) =>
            /\ sResult[q].ok
            /\ sResult[q].val.repositories = sOp[p].state.repositories
            /\ sResult[q].val.last_scan # NoneOpt

\* C17 amended: after save(s) succeeded, a load() with no write in between
\* returns the repository paths of s in the same order and the last_scan of
\* s as it was given to save(): populated when s carried a time, empty when
\* s carried none.
C17_RoundTripReturnsWhatWasSaved ==
    \A p, q \in Procs :
        RoundTrip(p, q) =>
            sResult[q] = Ok([repositories |-> sOp[p].state.repositories,
                             last_scan |-> sOp[p].state.last_scan])

\* A state with two paths and no last_scan was saved to a fresh file and
\* loaded back
C17_Witness ==
    \E p, q \in Procs :
        /\ RoundTrip(p, q)
        /\ ~sFile0.exists
        /\ Len(sOp[p].state.repositories) = 2
        /\ sOp[p].state.last_scan = NoneOpt
        /\ sResult[q].ok
        /\ sResult[q].val.last_scan = NoneOpt

\* The file at the start can be read and decodes to an envelope
Decodes0 == sDataDir /\ sFile0.exists /\ sFile0.readable /\ Decode(sFile0.bytes).ok

\* The envelope in the file at the start
Envelope0 == Decode(sFile0.bytes).val

C18_WitnessCurrent ==
    \E p \in Procs :
        /\ LoadAlone(p)
        /\ Decodes0
        /\ Envelope0.version = STATE_VERSION
        /\ Envelope0.state.repositories # <<>>
        /\ sResult[p] = Ok(Envelope0.state)
        /\ sFile = sFile0

\* What a load() run after the scan command returns
LoadedAfterScan == load(sFile, sDataDir).result

\* The paths of the inventory that was stored before the scan command ran
PreviousPaths ==
    LET before == load(sFile0, sDataDir).result.val.repositories
    IN  {before[i] : i \in 1..Len(before)}

\* The scan command has returned Ok
ScanSucceeded == rPc = "done" /\ rResult.ok

\* The scan command found no pool to scan
NoPoolToScan == cfgPools = <<>> \/ PoolsFound = {}

\* The inventory a load() returns after a successful scan is the list of
\* this scan: strictly ascending, and exactly the repositories reached from
\* the pools that exist
InventoryIsThisScan ==
    /\ LoadedAfterScan.ok
    /\ LET listed == LoadedAfterScan.val.repositories
       IN  /\ listed = repos
           /\ \A i \in 1..(Len(listed) - 1) : PathLess(listed[i], listed[i + 1])
           /\ {listed[i] : i \in 1..Len(listed)}
                  = UNION {ExpectedRepos(pool) : pool \in PoolsFound}

\* A scan that found no pool to scan failed and left the file as it was
FailedScanLeavesState ==
    (rPc = "done" /\ NoPoolToScan) => (~rResult.ok /\ sFile = sFile0)

C19_WitnessFailure ==
    /\ rPc = "done"
    /\ cfgPools # <<>>
    /\ PoolsFound = {}
    /\ ~rResult.ok
    /\ sFile0.exists
    /\ sFile = sFile0

\* Every invocation has finished
AllFinished == \A p \in Procs : sPc[p] = "done"

\* The file holds the envelope of the State given to the latest save() that
\* wrote
HoldsLastWrite ==
    /\ sFile.exists
    /\ Decode(sFile.bytes) = Ok([version |-> STATE_VERSION, state |-> sLast[1]])

\* C20 as stated: when several invocations race on the state file, the last
\* writer wins; once all of them have finished, the file holds exactly the
\* State given to the save() that executed last, whatever the interleaving
\* of the steps of load() and save().
C20_LastWriterWins ==
    (AllFinished /\ sLast # NoneOpt) => HoldsLastWrite

\* What the code keeps of it: after all invocations have finished, the file
\* holds the State of the latest save() or is gone, removed by a load()
\* that had read the file before that save() wrote it
C20_LastWriteOrRemoved ==
    (AllFinished /\ sLast # NoneOpt) =>
        \/ HoldsLastWrite
        \/ /\ ~sFile.exists
           /\ \E p \in Procs :
                  /\ sOp[p].kind = "load"
                  /\ sFile0.exists
                  /\ sBytes[p] = sFile0.bytes
                  /\ LoadMatch(sBytes[p]) = NoneOpt

-----------------------------------------------------------------------------
(* Profile discovery: profile.rs discover_profiles, parse_git_config_output, *)
(* parse_gitconfig_file                                                      *)

\* str::split_once(char): the text before and the text after the first
\* occurrence, None when there is none
split_once(text, sep) ==
    LET at == StrFind(text, <<sep>>)
    IN  IF at = -1 THEN NoneOpt
        ELSE Some(<<SubSeq(text, 1, at), SubSeq(text, at + 2, Len(text))>>)

FilePrefix == <<"f", "i", "l", "e", ":">>

\* Format: file:/path/to/file<TAB>key=value
parse_config_line(line) ==
    LET tabbed == split_once(line, "\t")
    IN  IF tabbed = NoneOpt THEN NoneOpt
        ELSE LET path_str == strip_prefix(tabbed[1][1], FilePrefix)
             IN  IF path_str = NoneOpt THEN NoneOpt
                 ELSE LET pair == split_once(tabbed[1][2], "=")
                      IN  IF pair = NoneOpt THEN NoneOpt
                          ELSE Some([source |-> path_str[1],
                                     key |-> pair[1][1],
                                     value |-> pair[1][2]])

\* The keys of git configuration that make a profile
Key_user_name == <<"u", "s", "e", "r", ".", "n", "a", "m", "e">>
Key_user_email == <<"u", "s", "e", "r", ".", "e", "m", "a", "i", "l">>
Key_user_signingkey ==
    <<"u", "s", "e", "r", ".", "s", "i", "g", "n", "i", "n", "g", "k", "e", "y">>
Key_commit_gpgsign ==
    <<"c", "o", "m", "m", "i", "t", ".", "g", "p", "g", "s", "i", "g", "n">>
Key_gpg_format == <<"g", "p", "g", ".", "f", "o", "r", "m", "a", "t">>
Key_tag_gpgsign == <<"t", "a", "g", ".", "g", "p", "g", "s", "i", "g", "n">>

\* parse_bool
parse_bool(value) ==
    LET lowered == to_lowercase(value)
    IN  IF lowered \in {<<"t", "r", "u", "e">>, <<"y", "e", "s">>, <<"o", "n">>, <<"1">>}
        THEN Some(TRUE)
        ELSE IF lowered \in {<<"f", "a", "l", "s", "e">>, <<"n", "o">>, <<"o", "f", "f">>, <<"0">>}
        THEN Some(FALSE)
        ELSE NoneOpt

\* ProfileFields::default()
DefaultFields ==
    [user_name |-> NoneOpt, user_email |-> NoneOpt, signing_key |-> NoneOpt,
     gpg_sign |-> NoneOpt, gpg_format |-> NoneOpt, tag_gpg_sign |-> NoneOpt]

\* ProfileFields::apply that keeps the value a key already has
apply_FirstWins(fields, key, value) ==
    IF key = Key_user_name /\ fields.user_name = NoneOpt
    THEN [fields EXCEPT !.user_name = Some(value)]
    ELSE IF key = Key_user_email /\ fields.user_email = NoneOpt
    THEN [fields EXCEPT !.user_email = Some(value)]
    ELSE IF key = Key_user_signingkey /\ fields.signing_key = NoneOpt
    THEN [fields EXCEPT !.signing_key = Some(value)]
    ELSE IF key = Key_commit_gpgsign /\ fields.gpg_sign = NoneOpt
    THEN [fields EXCEPT !.gpg_sign = parse_bool(value)]
    ELSE IF key = Key_gpg_format /\ fields.gpg_format = NoneOpt
    THEN [fields EXCEPT !.gpg_format = Some(value)]
    ELSE IF key = Key_tag_gpgsign /\ fields.tag_gpg_sign = NoneOpt
    THEN [fields EXCEPT !.tag_gpg_sign = parse_bool(value)]
    ELSE fields

\* ProfileFields::apply
apply(fields, key, value) ==
    IF key = Key_user_name THEN [fields EXCEPT !.user_name = Some(value)]
    ELSE IF key = Key_user_email THEN [fields EXCEPT !.user_email = Some(value)]
    ELSE IF key = Key_user_signingkey THEN [fields EXCEPT !.signing_key = Some(value)]
    ELSE IF key = Key_commit_gpgsign THEN [fields EXCEPT !.gpg_sign = parse_bool(value)]
    ELSE IF key = Key_gpg_format THEN [fields EXCEPT !.gpg_format = Some(value)]
    ELSE IF key = Key_tag_gpgsign THEN [fields EXCEPT !.tag_gpg_sign = parse_bool(value)]
    ELSE fields

\* The loop `for (key, value) in entries { fields.apply(&key, value) }`
RECURSIVE ApplyAll(_, _)
ApplyAll(fields, entries) ==
    IF entries = <<>> THEN fields
    ELSE ApplyAll(apply(fields, Head(entries).key, Head(entries).value), Tail(entries))

\* has_user_config that is content with any field
has_user_config_AnyField(fields) == fields # DefaultFields

\* ProfileFields::has_user_config
has_user_config(fields) == fields.user_name # NoneOpt \/ fields.user_email # NoneOpt

Name_local == <<"l", "o", "c", "a", "l">>
Name_global == <<"g", "l", "o", "b", "a", "l">>
Name_unknown == <<"u", "n", "k", "n", "o", "w", "n">>
Name_dotgitconfig == <<".", "g", "i", "t", "c", "o", "n", "f", "i", "g">>
Name_config == <<"c", "o", "n", "f", "i", "g">>
Ext_gitconfig == <<".", "g", "i", "t", "c", "o", "n", "f", "i", "g">>
Ext_git == <<".", "g", "i", "t">>

\* derive_profile_name
derive_profile_name(path) ==
    LET normal == PathComponents(path).normal
        file_name == IF normal = <<>> THEN Name_unknown ELSE normal[Len(normal)]
    IN  IF file_name \in {Name_dotgitconfig, Name_config}
        THEN IF Len(normal) >= 2 /\ normal[Len(normal) - 1] = Name_git
             THEN Name_local
             ELSE Name_global
        ELSE trim_end_matches(trim_end_matches(file_name, Ext_gitconfig), Ext_git)

\* ProfileFields::into_profile
into_profile(fields, source) ==
    [name |-> derive_profile_name(source),
     source |-> source,
     user_name |-> fields.user_name,
     user_email |-> fields.user_email,
     signing_key |-> fields.signing_key,
     gpg_sign |-> fields.gpg_sign,
     gpg_format |-> fields.gpg_format,
     tag_gpg_sign |-> fields.tag_gpg_sign,
     is_default |-> FALSE]

\* sort_by(|a, b| a.name.cmp(&b.name)): a stable sort
RECURSIVE InsertByName(_, _)
InsertByName(sorted, x) ==
    IF sorted = <<>> THEN <<x>>
    ELSE IF StrLess(x.name, Head(sorted).name) THEN <<x>> \o sorted
    ELSE <<Head(sorted)>> \o InsertByName(Tail(sorted), x)

RECURSIVE SortByName(_)
SortByName(seq) ==
    IF seq = <<>> THEN <<>>
    ELSE InsertByName(SortByName(SubSeq(seq, 1, Len(seq) - 1)), seq[Len(seq)])

\* entries_by_file.entry(source).or_default().push((key, value))
MapPush(map, source, key, value) ==
    IF \E e \in map : PathEq(e.source, source)
    THEN {IF PathEq(e.source, source)
          THEN [e EXCEPT !.entries = Append(@, [key |-> key, value |-> value])]
          ELSE e : e \in map}
    ELSE map \cup {[source |-> source, entries |-> <<[key |-> key, value |-> value]>>]}

\* HashSet<PathBuf>::contains
SeenContains(seen, path) == \E src \in seen : PathEq(src, path)

\* Bound of the discovery specification: the lines git prints
MaxOutputLines == 3

\* Files that hold git configuration
Path_home == <<"/">> \o Name_dotgitconfig
Path_w == <<"/", "w">> \o Ext_gitconfig
Path_xw == <<"/", "x", "/", "w">> \o Ext_gitconfig
\* /w.gitconfig as a directory given with a trailing "/." makes it
Path_w_dot == <<"/", ".", "/", "w">> \o Ext_gitconfig
Path_v == <<"/", "v">> \o Ext_gitconfig
Path_k == <<"/", "k">> \o Ext_gitconfig
Path_z == <<"/", "z">> \o Ext_gitconfig

\* The records `git config --list --show-origin` may print: the origin file
\* (None for the origin "command line:"), the key and the value
GitRecords ==
    {[origin |-> Some(Path_w), key |-> Key_user_name, value |-> <<"a">>],
     [origin |-> Some(Path_w), key |-> Key_user_email, value |-> <<"e">>],
     [origin |-> Some(Path_home), key |-> Key_user_email, value |-> <<"e">>],
     [origin |-> Some(Path_home), key |-> Key_user_email, value |-> <<"f">>],
     [origin |-> Some(Path_w), key |-> Key_commit_gpgsign, value |-> <<"O", "n">>],
     [origin |-> Some(Path_w), key |-> Key_commit_gpgsign, value |-> <<"x">>],
     [origin |-> Some(Path_w), key |-> Key_user_signingkey, value |-> <<"k", "=", "k">>],
     [origin |-> NoneOpt, key |-> Key_user_email, value |-> <<"e">>]}

\* The line git prints for a record
LineOf(rec) ==
    (IF rec.origin = NoneOpt
     THEN <<"c", "o", "m", "m", "a", "n", "d", " ", "l", "i", "n", "e", ":">>
     ELSE FilePrefix \o rec.origin[1])
        \o <<"\t">> \o rec.key \o <<"=">> \o rec.value

GitLines == {LineOf(rec) : rec \in GitRecords}

\* What `git config --file <path> --list` prints for the files, None when
\* git fails on the file
FileOutput(path) ==
    IF PathEq(path, Path_w) THEN Some(<< Key_user_email \o <<"=", "e">> >>)
    ELSE IF path = Path_xw
    THEN Some(<< Key_user_email \o <<"=", "f">>,
                 Key_tag_gpgsign \o <<"=", "n", "o">>,
                 Key_gpg_format \o <<"=", "s", "s", "h">>,
                 Key_user_email \o <<"=", "e">> >>)
    ELSE IF path = Path_v THEN Some(<< Key_user_name \o <<"=", "a">> >>)
    ELSE IF path = Path_k
    THEN Some(<< Key_user_signingkey \o <<"=", "k">>,
                 Key_commit_gpgsign \o <<"=", "t", "r", "u", "e">> >>)
    ELSE NoneOpt

\* The lists find_gitconfig_files may return: one with a file git knows,
\* and one with a file without identity, a file git cannot read and a file
\* listed twice
ListedCatalog ==
    {<<Path_xw, Path_w_dot, Path_v>>,
     <<Path_v, Path_k, Path_xw, Path_z, Path_xw>>}

DiscoverEmails == {NoneOpt, Some(<<"e">>)}
DiscoverDefaults == {NoneOpt, Some(<<"w">>)}

\* The loop `for line in stdout.lines()` of parse_gitconfig_file
RECURSIVE ApplyLines(_, _)
ApplyLines(fields, lines) ==
    IF lines = <<>> THEN fields
    ELSE LET pair == split_once(Head(lines), "=")
         IN  ApplyLines(IF pair = NoneOpt THEN fields
                        ELSE apply(fields, pair[1][1], pair[1][2]),
                        Tail(lines))

\* parse_gitconfig_file
parse_gitconfig_file(path) ==
    IF FileOutput(path) = NoneOpt THEN NoneOpt
    ELSE LET fields == ApplyLines(DefaultFields, FileOutput(path)[1])
         IN  IF ~has_user_config(fields) THEN NoneOpt
             ELSE Some(into_profile(fields, path))

InitDiscover ==
    /\ dOutput \in SeqsUpTo(GitLines, MaxOutputLines)
    /\ dListed \in ListedCatalog
    /\ dEmail \in DiscoverEmails
    /\ dDefault \in DiscoverDefaults
    /\ dPc = "lines"
    /\ dLine = 1
    /\ entries_by_file = {}
    /\ parsed = <<>>
    /\ git_profiles = <<>>
    /\ additional_profiles = <<>>
    /\ seen_sources = {}
    /\ dResult = <<>>
    /\ DiscoverOthersIdle

\* parse_git_config_output: the body of `for line in output.lines()`
ParseLine ==
    /\ dPc = "lines"
    /\ dLine <= Len(dOutput)
    /\ LET rec == parse_config_line(dOutput[dLine])
       IN  entries_by_file' =
               IF rec = NoneOpt THEN entries_by_file
               ELSE MapPush(entries_by_file, rec[1].source, rec[1].key, rec[1].value)
    /\ dLine' = dLine + 1
    /\ UNCHANGED <<dOutput, dListed, dEmail, dDefault, dPc, parsed, git_profiles,
                   additional_profiles, seen_sources, dResult>>
    /\ DiscoverFrame

\* parse_git_config_output: the body of `for (source, entries) in
\* entries_by_file`; a HashMap yields its entries in any order
BuildProfile ==
    /\ dPc = "lines"
    /\ dLine > Len(dOutput)
    /\ \E e \in entries_by_file :
          LET fields == ApplyAll(DefaultFields, e.entries)
          IN  /\ entries_by_file' = entries_by_file \ {e}
              /\ parsed' = IF ~has_user_config(fields) THEN parsed
                           ELSE Append(parsed, into_profile(fields, e.source))
    /\ UNCHANGED <<dOutput, dListed, dEmail, dDefault, dPc, dLine, git_profiles,
                   additional_profiles, seen_sources, dResult>>
    /\ DiscoverFrame

\* parse_git_config_output sorts and returns; discover_profiles: the loop
\* over the profiles returned
ParseReturn ==
    /\ dPc = "lines"
    /\ dLine > Len(dOutput)
    /\ entries_by_file = {}
    /\ LET returned == SortByName(parsed)
       IN  /\ parsed' = returned
           /\ git_profiles' = returned
           /\ seen_sources' = {returned[i].source : i \in 1..Len(returned)}
    /\ dPc' = "files"
    /\ dLine' = 1
    /\ UNCHANGED <<dOutput, dListed, dEmail, dDefault, entries_by_file,
                   additional_profiles, dResult>>
    /\ DiscoverFrame

\* discover_profiles: the body of `for path in find_gitconfig_files(..)`
ParseFile ==
    /\ dPc = "files"
    /\ dLine <= Len(dListed)
    /\ LET path == dListed[dLine]
           profile == parse_gitconfig_file(path)
       IN  IF SeenContains(seen_sources, path) \/ profile = NoneOpt
           THEN UNCHANGED <<seen_sources, additional_profiles>>
           ELSE /\ seen_sources' = seen_sources \cup {path}
                /\ additional_profiles' = Append(additional_profiles, profile[1])
    /\ dLine' = dLine + 1
    /\ UNCHANGED <<dOutput, dListed, dEmail, dDefault, dPc, entries_by_file, parsed,
                   git_profiles, dResult>>
    /\ DiscoverFrame

\* Combine that looks for the current profile in both populations
Combine_CurrentFromAll(sorted_git, sorted_additional, current_email, default_name) ==
    LET everyone == sorted_git \o sorted_additional
        current_idx ==
            IF current_email = NoneOpt THEN 0
            ELSE FirstIndex({i \in 1..Len(everyone) :
                                everyone[i].user_email = Some(current_email[1])})
        combined ==
            IF current_idx = 0 THEN everyone
            ELSE <<everyone[current_idx]>> \o VecRemove(everyone, current_idx)
        default_idx ==
            IF default_name = NoneOpt THEN 0
            ELSE FirstIndex({i \in 1..Len(combined) : combined[i].name = default_name[1]})
    IN  IF default_idx = 0 THEN combined
        ELSE [combined EXCEPT ![default_idx].is_default = TRUE]

\* The list discover_profiles puts together from the two sorted populations:
\* the current profile first, then the default flag
Combine(sorted_git, sorted_additional, current_email, default_name) ==
    LET current_idx ==
            IF current_email = NoneOpt THEN 0
            ELSE FirstIndex({i \in 1..Len(sorted_git) :
                                sorted_git[i].user_email = Some(current_email[1])})
        combined ==
            IF current_idx = 0 THEN sorted_git \o sorted_additional
            ELSE <<sorted_git[current_idx]>> \o VecRemove(sorted_git, current_idx)
                     \o sorted_additional
        default_idx ==
            IF default_name = NoneOpt THEN 0
            ELSE FirstIndex({i \in 1..Len(combined) : combined[i].name = default_name[1]})
    IN  IF default_idx = 0 THEN combined
        ELSE [combined EXCEPT ![default_idx].is_default = TRUE]

\* discover_profiles after the loops: the two sorts, current_idx, the
\* combined list and the default flag
DiscoverFinish ==
    /\ dPc = "files"
    /\ dLine > Len(dListed)
    /\ git_profiles' = SortByName(git_profiles)
    /\ additional_profiles' = SortByName(additional_profiles)
    /\ dResult' = Combine(git_profiles', additional_profiles', dEmail, dDefault)
    /\ dPc' = "done"
    /\ UNCHANGED <<dOutput, dListed, dEmail, dDefault, dLine, entries_by_file, parsed,
                   seen_sources>>
    /\ DiscoverFrame

NextDiscover == ParseLine \/ BuildProfile \/ ParseReturn \/ ParseFile \/ DiscoverFinish

SpecDiscover == InitDiscover /\ [][NextDiscover]_vars

-----------------------------------------------------------------------------
(* The discovery claims: C21 to C24 *)

\* The record a line of the output was printed for
RecordOfLine(line) == CHOOSE rec \in GitRecords : LineOf(rec) = line

\* The positions in the output of the records of an origin file, and of
\* those among them that bear a key
RecordsOf(file) ==
    {i \in 1..Len(dOutput) : RecordOfLine(dOutput[i]).origin = Some(file)}
RecordsOfKey(file, key) ==
    {i \in RecordsOf(file) : RecordOfLine(dOutput[i]).key = key}

\* The origin files of the output
OriginFiles == {Path_w, Path_home}

\* The records of an origin file hold user.name or user.email
HoldsIdentity(file) ==
    RecordsOfKey(file, Key_user_name) \cup RecordsOfKey(file, Key_user_email) # {}

\* A listed file holds a user.name or a user.email line
ListsIdentity(path) ==
    /\ FileOutput(path) # NoneOpt
    /\ \E i \in 1..Len(FileOutput(path)[1]) :
          \/ StartsWith(FileOutput(path)[1][i], Key_user_name \o <<"=">>)
          \/ StartsWith(FileOutput(path)[1][i], Key_user_email \o <<"=">>)

ElemsOf(seq) == {seq[i] : i \in 1..Len(seq)}

\* Every profile constructed so far
Constructed ==
    ElemsOf(parsed) \cup ElemsOf(git_profiles) \cup ElemsOf(additional_profiles)
        \cup ElemsOf(dResult)

\* C21: every profile produced by parse_git_config_output and
\* parse_gitconfig_file, and so by discover_profiles, has user_name or
\* user_email set; an origin file whose records hold neither user.name nor
\* user.email yields no profile, whatever other keys it holds.
C21_NoProfileWithoutIdentity ==
    /\ \A p \in Constructed : p.user_name # NoneOpt \/ p.user_email # NoneOpt
    /\ \A file \in OriginFiles :
          ~HoldsIdentity(file) => \A p \in ElemsOf(git_profiles) : p.source # file
    /\ \A i \in 1..Len(dListed) :
          ~ListsIdentity(dListed[i])
              => \A p \in ElemsOf(additional_profiles) : p.source # dListed[i]

\* The output held a signing key and a gpg setting for a file and no
\* identity, a listed file held the same, and neither became a profile
C21_Witness ==
    /\ dPc = "done"
    /\ RecordsOfKey(Path_w, Key_user_signingkey) # {}
    /\ RecordsOfKey(Path_w, Key_commit_gpgsign) # {}
    /\ ~HoldsIdentity(Path_w)
    /\ HoldsIdentity(Path_home)
    /\ \E i \in 1..Len(dListed) : dListed[i] = Path_k
    /\ \A p \in ElemsOf(dResult) : p.source \notin {Path_w, Path_k}
    /\ Len(dResult) >= 2

\* The value of the last record of a key among the records of an origin
\* file, None when the file has no record of the key
LastValue(file, key) ==
    LET hits == RecordsOfKey(file, key)
    IN  IF hits = {} THEN NoneOpt
        ELSE Some(RecordOfLine(dOutput[CHOOSE i \in hits : \A j \in hits : j <= i]).value)

\* The boolean a value of git configuration stands for, None when it is not
\* one of the recognized spellings ("On" is, "x" is not)
BooleanOf(value) ==
    IF value = <<"O", "n">> THEN Some(TRUE) ELSE NoneOpt

LastBoolean(file, key) ==
    IF LastValue(file, key) = NoneOpt THEN NoneOpt
    ELSE BooleanOf(LastValue(file, key)[1])

\* parse_git_config_output has returned
ParseReturned == dPc \in {"files", "done"}

\* C22: parse_git_config_output groups the records by origin file, one
\* profile for each file that holds identity, and within a file the last
\* record of a key wins: each field of the profile is the value of the last
\* record of its key in that file (for commit.gpgsign and tag.gpgsign its
\* boolean, absent when the value is not a recognized boolean), whatever
\* records of other files are interleaved.
C22_LastRecordOfKeyWins ==
    ParseReturned =>
        /\ \A file \in OriginFiles :
              HoldsIdentity(file)
                  => Cardinality({i \in 1..Len(parsed) : parsed[i].source = file}) = 1
        /\ \A p \in ElemsOf(parsed) :
              /\ p.user_name = LastValue(p.source, Key_user_name)
              /\ p.user_email = LastValue(p.source, Key_user_email)
              /\ p.signing_key = LastValue(p.source, Key_user_signingkey)
              /\ p.gpg_format = LastValue(p.source, Key_gpg_format)
              /\ p.gpg_sign = LastBoolean(p.source, Key_commit_gpgsign)
              /\ p.tag_gpg_sign = LastBoolean(p.source, Key_tag_gpgsign)

\* Two records of user.email for one file with a record of user.email for
\* another file between them: the profile has the value of the second
C22_Witness ==
    /\ ParseReturned
    /\ Len(dOutput) = 3
    /\ RecordsOfKey(Path_home, Key_user_email) = {1, 3}
    /\ RecordsOfKey(Path_w, Key_user_email) = {2}
    /\ RecordOfLine(dOutput[1]).value = <<"e">>
    /\ RecordOfLine(dOutput[3]).value = <<"f">>
    /\ \E p \in ElemsOf(parsed) : p.source = Path_home /\ p.user_email = Some(<<"f">>)
    /\ \E p \in ElemsOf(parsed) : p.source = Path_w /\ p.user_email = Some(<<"e">>)

\* A recognized boolean followed by a value that is none: the field is absent
C22_WitnessBoolean ==
    /\ ParseReturned
    /\ RecordsOfKey(Path_w, Key_commit_gpgsign) = {2, 3}
    /\ RecordOfLine(dOutput[2]).value = <<"O", "n">>
    /\ RecordOfLine(dOutput[3]).value = <<"x">>
    /\ \E p \in ElemsOf(parsed) : p.source = Path_w /\ p.gpg_sign = NoneOpt

\* The files of the git-known population: the origin files that hold
\* identity
GitKnownFiles == {file \in OriginFiles : HoldsIdentity(file)}

\* The positions in the listing of the files of the additional population:
\* the first listing of each file that holds identity and is not git-known
AdditionalListed ==
    {i \in 1..Len(dListed) :
        /\ ListsIdentity(dListed[i])
        /\ \A file \in GitKnownFiles : ~PathEq(file, dListed[i])
        /\ \A j \in 1..(i - 1) : ~PathEq(dListed[j], dListed[i])}

\* The slice of the returned list from position a to position b is in
\* ascending order of name
SortedByName(a, b) ==
    \A i \in a..(b - 1) : ~StrLess(dResult[i + 1].name, dResult[i].name)

\* The git-known profiles whose user_email is the effective user.email
CurrentCandidates ==
    IF dEmail = NoneOpt THEN {}
    ELSE {i \in 1..Cardinality(GitKnownFiles) : dResult[i].user_email = dEmail}

BearDefaultName ==
    IF dDefault = NoneOpt THEN {}
    ELSE {i \in 1..Len(dResult) : dResult[i].name = dDefault[1]}

\* C24 as stated: in the list discover_profiles returns, is_default is true
\* of a profile if and only if its name is the configured profiles.default;
\* when several profiles bear that name, every one of them is flagged.
C24_DefaultFlagIffNameMatches ==
    dPc = "done" =>
        \A i \in 1..Len(dResult) : dResult[i].is_default <=> i \in BearDefaultName

\* What the code does: of the profiles that bear the default name, the first
\* in the returned order is flagged, and no other profile
C24_OnlyFirstOfNameFlagged ==
    dPc = "done" =>
        \A i \in 1..Len(dResult) :
            dResult[i].is_default
                <=> (i \in BearDefaultName /\ \A j \in BearDefaultName : i <= j)

\* Two returned profiles bear the default name and only the first is flagged
C24_TwoBearDefaultName ==
    /\ dPc = "done"
    /\ Cardinality(BearDefaultName) = 2
    /\ \E i, j \in BearDefaultName :
          i < j /\ dResult[i].is_default /\ ~dResult[j].is_default

-----------------------------------------------------------------------------
(* includeIf rules: profile.rs parse_include_if_from_file *)

\* char::is_whitespace over the characters of the lines
IsWhitespace(c) == c \in {" ", "\t"}

\* str::trim_start, str::trim_end and str::trim
RECURSIVE trim_start(_)
trim_start(text) ==
    IF text # <<>> /\ IsWhitespace(Head(text)) THEN trim_start(Tail(text)) ELSE text

RECURSIVE trim_end(_)
trim_end(text) ==
    IF text # <<>> /\ IsWhitespace(text[Len(text)])
    THEN trim_end(SubSeq(text, 1, Len(text) - 1))
    ELSE text

trim(text) == trim_end(trim_start(text))

\* str::strip_suffix
strip_suffix(text, part) ==
    IF EndsWith(text, part) THEN Some(SubSeq(text, 1, Len(text) - Len(part)))
    ELSE NoneOpt

IncludeIfOpen == <<"[", "i", "n", "c", "l", "u", "d", "e", "I", "f", " ", "\"">>
IncludeIfClose == <<"\"", "]">>
PathKey == <<"p", "a", "t", "h">>

\* line.strip_prefix("[includeIf \"").and_then(|s| s.strip_suffix("\"]"))
HeaderCondition(line) ==
    LET rest == strip_prefix(line, IncludeIfOpen)
    IN  IF rest = NoneOpt THEN NoneOpt ELSE strip_suffix(rest[1], IncludeIfClose)

\* line.strip_prefix("path").and_then(|s| s.trim_start().strip_prefix('='))
\*     .map(str::trim)
PathValue(line) ==
    LET rest == strip_prefix(line, PathKey)
    IN  IF rest = NoneOpt THEN NoneOpt
        ELSE LET value == strip_prefix(trim_start(rest[1]), <<"=">>)
             IN  IF value = NoneOpt THEN NoneOpt ELSE Some(trim(value[1]))

\* Bound of the includeIf specification: the lines of the file
MaxIncludeLines == 3

\* The lines of a gitconfig file: what each is in git's format (the header
\* of an includeIf section with its condition, another header, a path
\* variable with its value, another variable) and its text
IncludeLineCatalog ==
    {[kind |-> "includeIf", condition |-> <<"g">>,
      text |-> IncludeIfOpen \o <<"g">> \o IncludeIfClose],
     [kind |-> "includeIf", condition |-> <<"u">>,
      text |-> <<" ">> \o IncludeIfOpen \o <<"u">> \o IncludeIfClose \o <<" ">>],
     [kind |-> "header", text |-> <<"[", "i", "n", "c", "l", "u", "d", "e", "]">>],
     [kind |-> "header",
      text |-> <<"[", "i", "n", "c", "l", "u", "d", "e", "i", "f", " ", "\"", "g", "\"", "]">>],
     [kind |-> "path", value |-> <<"~", "/", "a">>,
      text |-> <<"\t">> \o PathKey \o <<" ", "=", " ", "~", "/", "a">>],
     [kind |-> "path", value |-> <<"/", "b">>,
      text |-> PathKey \o <<"=", "/", "b", " ">>],
     [kind |-> "variable", text |-> PathKey \o <<"s", " ", "=", " ", "/", "b">>],
     [kind |-> "variable", text |-> <<"n", "a", "m", "e", " ", "=", " ", "a">>]}

IncludeLines == {rec.text : rec \in IncludeLineCatalog}

InitInclude ==
    /\ iContent \in SeqsUpTo(IncludeLines, MaxIncludeLines)
    /\ iReadable \in BOOLEAN
    /\ iPc = "read"
    /\ iLine = 0
    /\ current_condition = NoneOpt
    /\ iRules = <<>>
    /\ IncludeOthersIdle

\* parse_include_if_from_file: fs::read_to_string(path), the let-else
IncludeRead ==
    /\ iPc = "read"
    /\ IF iReadable
       THEN iPc' = "lines" /\ iLine' = 1
       ELSE iPc' = "done" /\ UNCHANGED iLine
    /\ UNCHANGED <<iContent, iReadable, current_condition, iRules>>
    /\ IncludeFrame

\* IncludeLine in which a header other than includeIf leaves the block open
IncludeLine_BlockStaysOpen ==
    /\ iPc = "lines"
    /\ iLine <= Len(iContent)
    /\ LET line == trim(iContent[iLine])
       IN  IF HeaderCondition(line) # NoneOpt
           THEN /\ current_condition' = Some(HeaderCondition(line)[1])
                /\ UNCHANGED iRules
           ELSE IF current_condition # NoneOpt /\ PathValue(line) # NoneOpt
           THEN /\ iRules' = Append(iRules, IncludeIfRule(current_condition[1],
                                                        expand_tilde(PathValue(line)[1])))
                /\ UNCHANGED current_condition
           ELSE UNCHANGED <<current_condition, iRules>>
    /\ iLine' = iLine + 1
    /\ UNCHANGED <<iContent, iReadable, iPc>>
    /\ IncludeFrame

\* parse_include_if_from_file: the body of `for line in content.lines()`
IncludeLine ==
    /\ iPc = "lines"
    /\ iLine <= Len(iContent)
    /\ LET line == trim(iContent[iLine])
       IN  IF HeaderCondition(line) # NoneOpt
           THEN /\ current_condition' = Some(HeaderCondition(line)[1])
                /\ UNCHANGED iRules
           ELSE IF StartsWith(line, <<"[">>)
           THEN /\ current_condition' = NoneOpt
                /\ UNCHANGED iRules
           ELSE IF current_condition # NoneOpt /\ PathValue(line) # NoneOpt
           THEN /\ iRules' = Append(iRules, IncludeIfRule(current_condition[1],
                                                        expand_tilde(PathValue(line)[1])))
                /\ UNCHANGED current_condition
           ELSE UNCHANGED <<current_condition, iRules>>
    /\ iLine' = iLine + 1
    /\ UNCHANGED <<iContent, iReadable, iPc>>
    /\ IncludeFrame

\* parse_include_if_from_file returns rules
IncludeReturn ==
    /\ iPc = "lines"
    /\ iLine > Len(iContent)
    /\ iPc' = "done"
    /\ UNCHANGED <<iContent, iReadable, iLine, current_condition, iRules>>
    /\ IncludeFrame

NextInclude == IncludeRead \/ IncludeLine \/ IncludeReturn

SpecInclude == InitInclude /\ [][NextInclude]_vars

-----------------------------------------------------------------------------
(* C25 *)

\* What line i of the file is
LineRecord(i) == CHOOSE rec \in IncludeLineCatalog : rec.text = iContent[i]

\* The section header closest before line i, 0 when there is none
ClosestHeader(i) ==
    LET headers == {j \in 1..(i - 1) : LineRecord(j).kind \in {"includeIf", "header"}}
    IN  IF headers = {} THEN 0 ELSE CHOOSE j \in headers : \A k \in headers : k <= j

\* The path lines that stand in an includeIf block
PathLinesInBlock ==
    {i \in 1..Len(iContent) :
        /\ LineRecord(i).kind = "path"
        /\ ClosestHeader(i) # 0
        /\ LineRecord(ClosestHeader(i)).kind = "includeIf"}

\* The k-th element of a set of numbers in ascending order
NthOf(set, k) == CHOOSE i \in set : Cardinality({j \in set : j < i}) = k - 1

\* The home directory joined with what follows "~/" in a path value
TildeExpanded(value) ==
    IF value = <<"~", "/", "a">> THEN <<"/", "h", "/", "a">> ELSE value

\* C25: the rules parse_include_if_from_file returns are, in file order, one
\* for each path line inside an includeIf block, with the condition of the
\* closest includeIf header before it; path lines outside such a block (at
\* the top of the file, or under another header such as [include]) yield no
\* rule, and a file that cannot be read yields none at all.
C25_OneRulePerPathLineInBlock ==
    iPc = "done" =>
        IF ~iReadable THEN iRules = <<>>
        ELSE /\ Len(iRules) = Cardinality(PathLinesInBlock)
             /\ \A k \in 1..Len(iRules) :
                   LET i == NthOf(PathLinesInBlock, k)
                   IN  /\ iRules[k].condition = LineRecord(ClosestHeader(i)).condition
                       /\ iRules[k].target_path = TildeExpanded(LineRecord(i).value)

\* An includeIf header written with blanks around it, a path line with a
\* tilde, another variable: one rule, with the header's condition and the
\* path under the home directory
C25_Witness ==
    /\ iPc = "done"
    /\ iReadable
    /\ Len(iContent) = 3
    /\ LineRecord(1).kind = "includeIf" /\ LineRecord(1).condition = <<"u">>
    /\ LineRecord(2).kind = "path" /\ LineRecord(2).value = <<"~", "/", "a">>
    /\ LineRecord(3).kind = "variable"
    /\ iRules = <<IncludeIfRule(<<"u">>, <<"/", "h", "/", "a">>)>>

\* An includeIf header, the header [include], a path line: no rule
C25_WitnessOutside ==
    /\ iPc = "done"
    /\ iReadable
    /\ Len(iContent) = 3
    /\ LineRecord(1).kind = "includeIf"
    /\ LineRecord(2).kind = "header"
    /\ LineRecord(3).kind = "path"
    /\ iRules = <<>>

\* ---------------------------------------------------------------------
\* IncludeIfRule::matches, one rule asked about one context at a time
\* ---------------------------------------------------------------------

\* The number of contexts one rule is asked about
MaxMatchCalls == 2

\* The conditions of the rules asked, each with the field of the context the
\* condition is about ("none": the prefix is not one that matches() knows) and,
\* for a directory pattern, the directory it names and the form it has
MatchConditionCatalog ==
    {[condition |-> GitdirPrefix \o <<"/", "h", "/">>, needs |-> "path",
      dir |-> Some(<<"/", "h">>), form |-> "slash"],
     [condition |-> GitdirPrefix \o <<"/", "h", "/", "*", "*">>, needs |-> "path",
      dir |-> Some(<<"/", "h">>), form |-> "stars"],
     [condition |-> GitdirPrefix \o <<"/", "b", "/">>, needs |-> "path",
      dir |-> Some(<<"/", "b">>), form |-> "slash"],
     [condition |-> GitdirPrefix \o <<"/", "b", "/", "*", "*">>, needs |-> "path",
      dir |-> Some(<<"/", "b">>), form |-> "stars"],
     [condition |-> GitdirIPrefix \o <<"/", "H", "/">>, needs |-> "path",
      dir |-> NoneOpt, form |-> "other"],
     [condition |-> GitdirPrefix \o <<"/", "h", "/", "r">>, needs |-> "path",
      dir |-> NoneOpt, form |-> "other"],
     [condition |-> GitdirPrefix \o <<"*">>, needs |-> "path",
      dir |-> NoneOpt, form |-> "other"],
     [condition |-> GitdirIPrefix \o <<"*">>, needs |-> "path",
      dir |-> NoneOpt, form |-> "other"],
     [condition |-> HasconfigUrlPrefix \o <<"g", "*">>, needs |-> "url",
      dir |-> NoneOpt, form |-> "other"],
     [condition |-> HasconfigUrlPrefix \o <<"*">>, needs |-> "url",
      dir |-> NoneOpt, form |-> "other"],
     [condition |-> <<"o", "n", "b", "r", "a", "n", "c", "h", ":", "*">>, needs |-> "none",
      dir |-> NoneOpt, form |-> "other"],
     [condition |-> <<"G", "i", "t", "d", "i", "r", ":", "*">>, needs |-> "none",
      dir |-> NoneOpt, form |-> "other"],
     [condition |-> <<"g", "i", "t", "d", "i", "r">>, needs |-> "none",
      dir |-> NoneOpt, form |-> "other"],
     [condition |-> <<>>, needs |-> "none", dir |-> NoneOpt, form |-> "other"]}

MatchConditions == {c.condition : c \in MatchConditionCatalog}

\* The target paths asked about: the directories /h and /b, what lies
\* beneath them, paths whose names begin with theirs, and a path through the
\* symbolic link /l
MatchTargets ==
    {NoneOpt, Some(<<"/", "h">>), Some(<<"/", "h", "/", "r">>), Some(<<"/", "h", "x">>),
     Some(<<"/", "h", "x", "/", "r">>), Some(<<"/", "b">>), Some(<<"/", "b", "/", "c">>),
     Some(<<"/", "b", "c">>), Some(<<"/", "l", "/", "r">>), Some(<<"/", "a">>)}

MatchUrls == {NoneOpt, Some(<<"g", "/", "o">>), Some(<<"o">>)}

MatchContexts == {ProfileContext(t, u) : t \in MatchTargets, u \in MatchUrls}

InitMatch ==
    /\ mRule \in {IncludeIfRule(c, <<"/", "a">>) : c \in MatchConditions}
    /\ mContext \in MatchContexts
    /\ mPc = "ready"
    /\ mResult = FALSE
    /\ mCalls = 0
    /\ MatchOthersIdle

\* rule.matches(context)
MatchCall ==
    /\ mPc = "ready"
    /\ mResult' = matches(mRule, mContext)
    /\ mCalls' = mCalls + 1
    /\ mPc' = "done"
    /\ UNCHANGED <<mRule, mContext>>
    /\ MatchFrame

\* The same rule is asked about the next context
MatchNextContext ==
    /\ mPc = "done"
    /\ mCalls < MaxMatchCalls
    /\ mContext' \in MatchContexts
    /\ mPc' = "ready"
    /\ UNCHANGED <<mRule, mResult, mCalls>>
    /\ MatchFrame

NextMatch == MatchCall \/ MatchNextContext

SpecMatch == InitMatch /\ [][NextMatch]_vars

\* The catalog's record of the rule at hand
ConditionRecord == CHOOSE c \in MatchConditionCatalog : c.condition = mRule.condition

\* C26: IncludeIfRule::matches is false when the context lacks the field the
\* rule's condition is about: a gitdir: or gitdir/i: rule without
\* target_path, a hasconfig:remote.*.url: rule without clone_url, a rule with
\* any other prefix always; so nothing matches a context with neither field.
C26_NoMatchWithoutNeededField ==
    mPc = "done" =>
        /\ (ConditionRecord.needs = "path" /\ mContext.target_path = NoneOpt) => ~mResult
        /\ (ConditionRecord.needs = "url" /\ mContext.clone_url = NoneOpt) => ~mResult
        /\ ConditionRecord.needs = "none" => ~mResult
        /\ (mContext.target_path = NoneOpt /\ mContext.clone_url = NoneOpt) => ~mResult

\* A rule that matches every URL was asked about a context that carries a
\* path and no URL
C26_Witness ==
    /\ mPc = "done"
    /\ mRule.condition = HasconfigUrlPrefix \o <<"*">>
    /\ mContext.clone_url = NoneOpt
    /\ mContext.target_path # NoneOpt
    /\ ~mResult

\* A rule of an unknown prefix was asked about a context with both fields
C26_WitnessUnknownPrefix ==
    /\ mPc = "done"
    /\ ConditionRecord.needs = "none"
    /\ mContext.clone_url # NoneOpt
    /\ mContext.target_path # NoneOpt
    /\ ~mResult

\* The rules do match when the field is there
C26_WitnessMatch ==
    /\ mPc = "done"
    /\ mRule.condition = GitdirPrefix \o <<"*">>
    /\ mContext.clone_url = NoneOpt
    /\ mResult

\* ---------------------------------------------------------------------
\* C27: directory patterns
\* ---------------------------------------------------------------------

\* path is dir itself or lies beneath it: the components of dir begin the
\* components of path
AtOrBeneath(path, dir) ==
    LET p == PathComponents(path)
        d == PathComponents(dir)
    IN  /\ p.has_root = d.has_root
        /\ Len(d.normal) <= Len(p.normal)
        /\ SubSeq(p.normal, 1, Len(d.normal)) = d.normal

\* The target of the context at hand, symbolic links resolved
ResolvedTarget == CanonicalOrSelf(mContext.target_path[1])

\* A directory pattern was asked about a context that carries a path
DirectoryCall ==
    /\ mPc = "done"
    /\ ConditionRecord.dir # NoneOpt
    /\ mContext.target_path # NoneOpt

\* The rule matches exactly the targets that are D or lie beneath D
MatchesOnComponentBoundary ==
    DirectoryCall => (mResult <=> AtOrBeneath(ResolvedTarget, ConditionRecord.dir[1]))

\* The forms 'D/' and 'D/**' give the same answer
BothFormsMatchTheSame ==
    DirectoryCall =>
        \A other \in MatchConditionCatalog :
            other.dir = ConditionRecord.dir =>
                (mResult <=> matches(IncludeIfRule(other.condition, mRule.target_path), mContext))

\* C27: a gitdir rule whose pattern ends with '/' or '/**' and names the
\* directory D matches a target exactly when the target is D or lies beneath
\* D on a component boundary; a sibling whose name begins with D's name does
\* not match, and the forms 'D/' and 'D/**' match the same targets.
C27_DirectoryMatchOnComponentBoundary ==
    /\ MatchesOnComponentBoundary
    /\ BothFormsMatchTheSame

\* What the code does hold to: 'D/' matches the targets whose string begins
\* with D, 'D/**' those whose string begins with D followed by '/'
C27_StringPrefix ==
    DirectoryCall =>
        LET d == ConditionRecord.dir[1]
            t == ResolvedTarget
        IN  mResult <=>
                IF ConditionRecord.form = "slash"
                THEN Len(d) <= Len(t) /\ SubSeq(t, 1, Len(d)) = d
                ELSE Len(d) < Len(t) /\ SubSeq(t, 1, Len(d) + 1) = d \o <<"/">>

\* The rule gitdir:/h/ was asked about /hx/r, which is not beneath /h
C27_WitnessSibling ==
    /\ DirectoryCall
    /\ mRule.condition = GitdirPrefix \o <<"/", "h", "/">>
    /\ mContext.target_path = Some(<<"/", "h", "x", "/", "r">>)
    /\ mResult

\* The rule gitdir:/h/** was asked about /h itself
C27_WitnessDirectoryItself ==
    /\ DirectoryCall
    /\ mRule.condition = GitdirPrefix \o <<"/", "h", "/", "*", "*">>
    /\ mContext.target_path = Some(<<"/", "h">>)
    /\ ~mResult

\* Both forms match what lies beneath the directory, through a link too
C27_WitnessBeneath ==
    /\ DirectoryCall
    /\ mContext.target_path = Some(<<"/", "l", "/", "r">>)
    /\ ConditionRecord.dir = Some(<<"/", "h">>)
    /\ mResult

\* ---------------------------------------------------------------------
\* C28: the priority of a name over a source path
\* ---------------------------------------------------------------------

\* One profile is named q and a different profile has the source path q
NameAndPathCompete ==
    \E i, j \in 1..Len(fProfiles) :
        /\ i # j
        /\ fProfiles[i].name = fName
        /\ fProfiles[j].name # fName
        /\ PathComponents(fProfiles[j].source) = PathComponents(fName)

\* C28: find_profile_by_name puts an exact match on the name before an exact
\* match on the source path: when one profile is named q and another has the
\* source path q, the profile named q is returned whatever their order.
C28_NameBeatsSourcePath ==
    (fPc = "done" /\ NameAndPathCompete)
        => (fResult.ok /\ fResult.profile.name = fName)

\* What the code returns there: the first profile of the list that has the
\* name or the source path
C28_FirstOfEitherIsReturned ==
    (fPc = "done" /\ NameAndPathCompete) =>
        /\ fResult.ok
        /\ \E i \in 1..Len(fProfiles) :
               /\ fResult.profile = fProfiles[i]
               /\ \A k \in 1..(i - 1) :
                      /\ fProfiles[k].name # fName
                      /\ PathComponents(fProfiles[k].source) # PathComponents(fName)

\* The profile with the source path q stands before the profile named q
C28_PathListedFirst ==
    /\ fPc = "done"
    /\ Len(fProfiles) = 2
    /\ fProfiles[1].name # fName
    /\ PathComponents(fProfiles[1].source) = PathComponents(fName)
    /\ fProfiles[2].name = fName
    /\ fResult.ok
    /\ fResult.profile = fProfiles[1]

\* ---------------------------------------------------------------------
\* commands/clone.rs: clone_repo with its reader thread, then apply_profile
\* ---------------------------------------------------------------------

\* The bytes git clone writes to stderr at most, and the bytes the pipe holds
MaxStderrLen == 3
PipeCapacity == 2

\* What git clone may print on stderr: nothing, or progress lines
StderrTexts ==
    {t \in {<<>>, <<"a">>, <<"a", "\r">>, <<"a", "\r", "b">>, <<"a", "\r", "b", "\n">>,
            <<"a", "\r", "b", "\n", "c">>} : Len(t) <= MaxStderrLen}

CloneProfiles == {p \in CmdProfiles : p.name \in {"id", "sign"}}

InitClone ==
    /\ kSelected \in CloneProfiles
    /\ kToWrite \in StderrTexts
    /\ kStatus \in BOOLEAN
    /\ kChild = "none"
    /\ kPipe = <<>>
    /\ kReader = "none"
    /\ all_output = <<>>
    /\ kChan = <<>>
    /\ kSends = 0
    /\ kMain = "spawn"
    /\ stderr_output = <<>>
    /\ kConfig = FreshConfig
    /\ kKey = 0
    /\ kResult = None
    /\ CloneOthersIdle

\* Command::new("git")...spawn(): the child runs, or spawn fails and the `?`
\* returns the error
CloneSpawn ==
    /\ kMain = "spawn"
    /\ \/ /\ kChild' = "running"
          /\ kMain' = "spawn_reader"
          /\ UNCHANGED kResult
       \/ /\ kResult' = Err("Failed to execute git clone")
          /\ kMain' = "done"
          /\ UNCHANGED kChild
    /\ UNCHANGED <<kSelected, kToWrite, kStatus, kPipe, kReader, all_output, kChan, kSends,
                   stderr_output, kConfig, kKey>>
    /\ CloneFrame

\* mpsc::channel(), child.stderr.take() and thread::spawn
CloneSpawnReader ==
    /\ kMain = "spawn_reader"
    /\ kReader' = "read"
    /\ kMain' = "wait"
    /\ UNCHANGED <<kSelected, kToWrite, kStatus, kChild, kPipe, all_output, kChan, kSends,
                   stderr_output, kConfig, kKey, kResult>>
    /\ CloneFrame

\* git clone writes one byte of its progress to stderr; it blocks while the
\* pipe is full
ChildWrite ==
    /\ kChild = "running"
    /\ kToWrite # <<>>
    /\ kReader # "ended"
    /\ Len(kPipe) < PipeCapacity
    /\ kPipe' = Append(kPipe, Head(kToWrite))
    /\ kToWrite' = Tail(kToWrite)
    /\ UNCHANGED <<kSelected, kStatus, kChild, kReader, all_output, kChan, kSends, kMain,
                   stderr_output, kConfig, kKey, kResult>>
    /\ CloneFrame

\* git clone writes to a pipe whose read end is closed: the write fails and
\* git ends, with one status or the other
ChildWriteBroken ==
    /\ kChild = "running"
    /\ kToWrite # <<>>
    /\ kReader = "ended"
    /\ kChild' = "exited"
    /\ kStatus' \in BOOLEAN
    /\ UNCHANGED <<kSelected, kToWrite, kPipe, kReader, all_output, kChan, kSends, kMain,
                   stderr_output, kConfig, kKey, kResult>>
    /\ CloneFrame

\* git clone ends, which closes the write end of the pipe
ChildExit ==
    /\ kChild = "running"
    /\ kToWrite = <<>>
    /\ kChild' = "exited"
    /\ UNCHANGED <<kSelected, kToWrite, kStatus, kPipe, kReader, all_output, kChan, kSends,
                   kMain, stderr_output, kConfig, kKey, kResult>>
    /\ CloneFrame

\* The reader: stderr.read(&mut buf) returns Ok(n) with n > 0 and the chunk
\* is pushed to all_output
ReaderRead ==
    /\ kReader = "read"
    /\ \E n \in 1..Len(kPipe) :
           /\ all_output' = all_output \o SubSeq(kPipe, 1, n)
           /\ kPipe' = SubSeq(kPipe, n + 1, Len(kPipe))
    /\ UNCHANGED <<kSelected, kToWrite, kStatus, kChild, kReader, kChan, kSends, kMain,
                   stderr_output, kConfig, kKey, kResult>>
    /\ CloneFrame

\* The reader: read returns an error, which ends the `while let Ok(n)` loop
ReaderReadError ==
    /\ kReader = "read"
    /\ kReader' = "send"
    /\ UNCHANGED <<kSelected, kToWrite, kStatus, kChild, kPipe, all_output, kChan, kSends,
                   kMain, stderr_output, kConfig, kKey, kResult>>
    /\ CloneFrame

\* The reader: read returns Ok(0), the pipe is empty and its write end
\* closed; `if n == 0 { break; }`
ReaderEof ==
    /\ kReader = "read"
    /\ kPipe = <<>>
    /\ kChild = "exited"
    /\ kReader' = "send"
    /\ UNCHANGED <<kSelected, kToWrite, kStatus, kChild, kPipe, all_output, kChan, kSends,
                   kMain, stderr_output, kConfig, kKey, kResult>>
    /\ CloneFrame

\* The reader: let _ = tx.send(all_output)
ReaderSend ==
    /\ kReader = "send"
    /\ kChan' = Append(kChan, all_output)
    /\ kSends' = kSends + 1
    /\ kReader' = "sent"
    /\ UNCHANGED <<kSelected, kToWrite, kStatus, kChild, kPipe, all_output, kMain,
                   stderr_output, kConfig, kKey, kResult>>
    /\ CloneFrame

\* The reader's closure returns: tx and stderr are dropped, the thread ends
ReaderEnd ==
    /\ kReader = "sent"
    /\ kReader' = "ended"
    /\ UNCHANGED <<kSelected, kToWrite, kStatus, kChild, kPipe, all_output, kChan, kSends,
                   kMain, stderr_output, kConfig, kKey, kResult>>
    /\ CloneFrame

\* child.wait() returns the exit status once git clone has ended
CloneWait ==
    /\ kMain = "wait"
    /\ kChild = "exited"
    /\ kMain' = "join"
    /\ UNCHANGED <<kSelected, kToWrite, kStatus, kChild, kPipe, kReader, all_output, kChan,
                   kSends, stderr_output, kConfig, kKey, kResult>>
    /\ CloneFrame

\* child.wait() fails and the `?` returns the error
CloneWaitFails ==
    /\ kMain = "wait"
    /\ kResult' = Err("Failed to wait for git clone")
    /\ kMain' = "done"
    /\ UNCHANGED <<kSelected, kToWrite, kStatus, kChild, kPipe, kReader, all_output, kChan,
                   kSends, stderr_output, kConfig, kKey>>
    /\ CloneFrame

\* reader_thread.join() returns once the reader thread has ended
CloneJoin ==
    /\ kMain = "join"
    /\ kReader = "ended"
    /\ kMain' = "recv"
    /\ UNCHANGED <<kSelected, kToWrite, kStatus, kChild, kPipe, kReader, all_output, kChan,
                   kSends, stderr_output, kConfig, kKey, kResult>>
    /\ CloneFrame

\* rx.recv().unwrap_or_default(): the message at the head of the channel,
\* the empty string when the channel is empty and its sender dropped; recv
\* blocks while the channel is empty and the sender alive
CloneRecv ==
    /\ kMain = "recv"
    /\ IF kChan # <<>>
       THEN stderr_output' = Head(kChan) /\ kChan' = Tail(kChan)
       ELSE kReader = "ended" /\ stderr_output' = <<>> /\ UNCHANGED kChan
    /\ kMain' = "status"
    /\ UNCHANGED <<kSelected, kToWrite, kStatus, kChild, kPipe, kReader, all_output, kSends,
                   kConfig, kKey, kResult>>
    /\ CloneFrame

\* CloneStatus that goes on to apply_profile whatever the exit status
CloneStatus_IgnoresStatus ==
    /\ kMain = "status"
    /\ kMain' = "apply"
    /\ UNCHANGED <<kSelected, kToWrite, kStatus, kChild, kPipe, kReader, all_output, kChan,
                   kSends, stderr_output, kConfig, kKey, kResult>>
    /\ CloneFrame

\* if !status.success() { bail!("Clone failed") }; otherwise clone_repo
\* returns Ok(()) and run goes on to apply_profile
CloneStatus ==
    /\ kMain = "status"
    /\ IF kStatus
       THEN kMain' = "apply" /\ UNCHANGED kResult
       ELSE kMain' = "done" /\ kResult' = Err("Clone failed")
    /\ UNCHANGED <<kSelected, kToWrite, kStatus, kChild, kPipe, kReader, all_output, kChan,
                   kSends, stderr_output, kConfig, kKey>>
    /\ CloneFrame

\* apply_profile: the test of repo_path.join(".git"), which a git clone
\* that succeeded has created
CloneApplyCheck ==
    /\ kMain = "apply"
    /\ kKey = 0
    /\ IF kChild = "exited" /\ kStatus
       THEN kKey' = 1 /\ UNCHANGED <<kMain, kResult>>
       ELSE kMain' = "done" /\ kResult' = Err("Not a git repository") /\ UNCHANGED kKey
    /\ UNCHANGED <<kSelected, kToWrite, kStatus, kChild, kPipe, kReader, all_output, kChan,
                   kSends, stderr_output, kConfig>>
    /\ CloneFrame

\* apply_profile: the statement of one key, as in ApplyKey
CloneApplyKey ==
    /\ kMain = "apply"
    /\ kKey \in 1..Len(ConfigKeys)
    /\ LET value == FieldValue(kSelected, kKey)
       IN  IF value = NoneOpt
           THEN kKey' = kKey + 1 /\ UNCHANGED <<kMain, kResult, kConfig>>
           ELSE \/ /\ kConfig' = [kConfig EXCEPT ![kKey] = value[1]]
                   /\ kKey' = kKey + 1
                   /\ UNCHANGED <<kMain, kResult>>
                \/ /\ kMain' = "done"
                   /\ kResult' = Err("Failed to set git config")
                   /\ UNCHANGED <<kKey, kConfig>>
    /\ UNCHANGED <<kSelected, kToWrite, kStatus, kChild, kPipe, kReader, all_output, kChan,
                   kSends, stderr_output>>
    /\ CloneFrame

\* apply_profile returns Ok(()) and so does run
CloneReturn ==
    /\ kMain = "apply"
    /\ kKey = Len(ConfigKeys) + 1
    /\ kMain' = "done"
    /\ kResult' = Ok(<<>>)
    /\ UNCHANGED <<kSelected, kToWrite, kStatus, kChild, kPipe, kReader, all_output, kChan,
                   kSends, stderr_output, kConfig, kKey>>
    /\ CloneFrame

NextClone ==
    \/ CloneSpawn \/ CloneSpawnReader \/ CloneWait \/ CloneWaitFails \/ CloneJoin
    \/ CloneRecv \/ CloneStatus \/ CloneApplyCheck \/ CloneApplyKey \/ CloneReturn
    \/ ChildWrite \/ ChildWriteBroken \/ ChildExit
    \/ ReaderRead \/ ReaderReadError \/ ReaderEof \/ ReaderSend \/ ReaderEnd

SpecClone == InitClone /\ [][NextClone]_vars

\* The scheduler runs each thread and the child that can take a step; a
\* failure of wait or of read is not something that must happen
CloneFairness ==
    /\ WF_vars(CloneSpawn \/ CloneSpawnReader \/ CloneWait \/ CloneJoin \/ CloneRecv
               \/ CloneStatus \/ CloneApplyCheck \/ CloneApplyKey \/ CloneReturn)
    /\ WF_vars(ChildWrite \/ ChildWriteBroken \/ ChildExit)
    /\ WF_vars(ReaderRead \/ ReaderEof \/ ReaderSend \/ ReaderEnd)

SpecCloneFair == SpecClone /\ CloneFairness

\* ---------------------------------------------------------------------
\* C29: apply_profile after the clone
\* ---------------------------------------------------------------------

\* apply_profile has been entered
ApplyEntered == kMain = "apply" \/ kKey > 0

\* A key of the target's configuration has been written
KeyWritten == kConfig # FreshConfig

\* git clone has ended with success
CloneSucceeded == kChild = "exited" /\ kStatus

\* C29: in the clone flow apply_profile runs only after git clone has exited
\* with success and the reader thread has ended and been joined; the reader
\* is there to drain stderr whenever the main thread waits for the child; it
\* sends its output exactly once before it ends; the receive after the join
\* finds the message waiting; and no key is written when the clone fails.
C29_ApplyOnlyAfterCloneAndJoin ==
    /\ (ApplyEntered \/ KeyWritten) => (CloneSucceeded /\ kReader = "ended")
    /\ (kMain = "wait" /\ kChild = "running") => kReader # "none"
    /\ kSends = (IF kReader \in {"sent", "ended"} THEN 1 ELSE 0)
    /\ kMain = "recv" => (kReader = "ended" /\ Len(kChan) = 1)
    /\ kMain \in {"status", "apply"} => (kReader = "ended" /\ kChan = <<>>)
    /\ ~CloneSucceeded => ~KeyWritten

\* What the main thread received is what the reader had collected
C29_ReceivedIsCollected ==
    kMain \in {"status", "apply"} => stderr_output = all_output

\* With the threads and the child scheduled fairly the flow comes to its end:
\* the child is never left blocked on a full pipe
C29_FlowEnds == <>(kMain = "done")

\* A clone that printed more than the pipe holds, succeeded, and was followed
\* by an apply_profile that wrote keys
C29_Witness ==
    /\ kMain = "done"
    /\ kResult.ok
    /\ CloneSucceeded
    /\ Len(stderr_output) = MaxStderrLen
    /\ KeyWritten

\* A clone that failed after printing, with the flow at its end
C29_WitnessFailure ==
    /\ kMain = "done"
    /\ kChild = "exited"
    /\ ~kStatus
    /\ stderr_output # <<>>
    /\ kResult = Err("Clone failed")

\* The child blocked on a full pipe while the main thread waits for it
C29_WitnessFullPipe ==
    /\ kMain = "wait"
    /\ kChild = "running"
    /\ Len(kPipe) = PipeCapacity
    /\ kToWrite # <<>>

\* ---------------------------------------------------------------------
\* C30: scan_directory terminates, having visited each directory once
\* ---------------------------------------------------------------------

\* How often dir stands on the stack
OnStack(dir) == Cardinality({i \in 1..Len(stack) : stack[i].dir = dir})

\* The directories scan_directory has read or tried to read
Popped == {d \in fsDirs : pops[d] > 0}

\* Each directory is pushed at most once and popped at most once, and it
\* stands on the stack from its push to its pop
VisitedAtMostOnce ==
    \A d \in fsDirs :
        /\ pushes[d] <= 1
        /\ pops[d] <= pushes[d]
        /\ OnStack(d) = pushes[d] - pops[d]

\* The directories whose descendants the rules let the scan reach: readable,
\* without .git and above the depth bound
Passable(scan_root, d) ==
    /\ d \notin fsUnreadable
    /\ ~IsRepository(d)
    /\ (cfgMaxDepth = NoneOpt \/ Level(scan_root, d) < cfgMaxDepth[1])

\* The directories the scan comes to: the root, and the unblocked
\* subdirectories of the passable directories it comes to
ComesTo(scan_root) ==
    {d \in fsDirs :
        /\ UnderRoot(scan_root, d)
        /\ \A x \in BelowRootUpTo(scan_root, d) : ~Blocked(scan_root, x)
        /\ \A a \in AncestorsFromRoot(scan_root, d) : Passable(scan_root, a)}

\* With the stack empty the scan has popped exactly the directories it
\* comes to, the unreadable ones among them, and has reported exactly the
\* readable ones that hold .git
EmptyStackMeansAllReported ==
    stack = <<>> =>
        /\ Popped = ComesTo(root)
        /\ FoundSet = {d \in ComesTo(root) : d \notin fsUnreadable /\ IsRepository(d)}

C30_Visits == rPc = "scan" => (VisitedAtMostOnce /\ EmptyStackMeansAllReported)

\* C30: scan_directory terminates on every finite tree, for every max_depth
\* and exclusion set: each directory is pushed at most once and popped at
\* most once, an unreadable directory is popped and skipped without ending
\* the scan, and with the stack empty every repository the descent rules
\* reach through readable directories has been reported.
C30_ScanTerminatesVisitingOnce ==
    /\ []C30_Visits
    /\ (rPc = "scan") ~> ScanReturned

\* Every iteration of the loop takes one directory off those still to visit
C30_EachIterationPopsOne ==
    [][rPc = "scan" /\ stack # <<>> => Cardinality(Popped') = Cardinality(Popped) + 1]_vars

\* A scan returned having popped an unreadable directory below the root
\* and reported a repository elsewhere in the tree
C30_Witness ==
    /\ ScanReturned
    /\ \E d \in fsUnreadable : d # root /\ pops[d] = 1
    /\ found # <<>>
    /\ Cardinality(Popped) >= 3

====
